---------------------------- MODULE Spec2Model ----------------------------
(***************************************************************************)
(* A model of driver/socket.c of wireguard-nt: the UDP transport of the    *)
(* tunnel device.  The module holds several specifications over one set    *)
(* of variables, one per part of the file:                                 *)
(*                                                                         *)
(*   SpecWsk       WskInit / WskUnload (transport bootstrap)               *)
(*   SpecSockInit  SocketInit: CreateAndBindSocket, the retry on a port    *)
(*                 collision, SocketReinit, CloseSocket                    *)
(*   SpecSock      sends (SocketSendBufferAsReplyToNbl, SendAsync,         *)
(*                 SendComplete) against SocketReinit and CloseSocket      *)
(*   SpecRecv      the Receive callback, the engine's release of datagrams *)
(*                 and CloseSocket                                         *)
(*   SpecSend      sends to a peer (SocketSendNblsToPeer,                  *)
(*                 SocketSendBufferToPeer, SocketResolvePeerEndpointSrc,   *)
(*                 SendAsync and its polyfill) and their completions       *)
(*   SpecPeer      the resolver against updates of the peer's endpoint     *)
(*                 (SocketSetPeerEndpoint, SocketClearPeerEndpointSrc) and *)
(*                 changes of the routes                                   *)
(*   SpecSetPeer   SocketSetPeerEndpoint called by two threads at once     *)
(*   SpecCidr      CidrMaskMatchV4 and CidrMaskMatchV6 on all inputs       *)
(*   SpecLock      the endpoint lock in the resolver and in both send      *)
(*                 functions, against SocketClearPeerEndpointSrc           *)
(*   SpecResolve   two resolvers at once against updates of the endpoint   *)
(*   SpecNbl       SocketEndpointFromNbl on the datagrams replied to and   *)
(*                 on those the endpoint is set from, against changes of   *)
(*                 the routes                                              *)
(*   SpecRoute     the resolver's choice of a route, on forwarding tables  *)
(*                 of every kind of row                                    *)
(*   SpecGen       the routing generations: the resolver against route     *)
(*                 notifications of either family                          *)
(*   SpecReinit    SocketReinit called by two threads at once              *)
(*   SpecSnap      both send functions against updates of the endpoint     *)
(*   SpecLive      termination of the resolver, with fair scheduling       *)
(*                                                                         *)
(* Each specification starts the other parts in a fixed idle state and     *)
(* leaves them unchanged.                                                  *)
(***************************************************************************)
EXTENDS Integers, Sequences, FiniteSets, TLC

(***************************************************************************)
(* Bounds of the model (not constants of the program).                     *)
(***************************************************************************)
\* Calls of WskInit / WskUnload each bootstrap thread may make.
MaxCalls == 2
\* Times the transport list query may answer STATUS_BUFFER_OVERFLOW.
MaxOverflow == 1

(***************************************************************************)
(* NTSTATUS values.  NT_SUCCESS is true of the success codes only.         *)
(***************************************************************************)
STATUS_SUCCESS == "STATUS_SUCCESS"
STATUS_PENDING == "STATUS_PENDING"
STATUS_RETRY == "STATUS_RETRY"
STATUS_INSUFFICIENT_RESOURCES == "STATUS_INSUFFICIENT_RESOURCES"
STATUS_BUFFER_OVERFLOW == "STATUS_BUFFER_OVERFLOW"
STATUS_UNSUCCESSFUL == "STATUS_UNSUCCESSFUL"

NT_SUCCESS(Status) == Status \in {STATUS_SUCCESS, STATUS_PENDING}

\* Failure statuses the kernel calls of WskInit may report.
OsFailures == {STATUS_INSUFFICIENT_RESOURCES, STATUS_UNSUCCESSFUL}

Reverse(s) == [i \in 1..Len(s) |-> s[Len(s) + 1 - i]]

(***************************************************************************)
(* State.                                                                  *)
(***************************************************************************)
VARIABLES
    \* ---- transport bootstrap (file-scope statics, lines 31-39) ----
    WskInitStatus,        \* the cached status, STATUS_RETRY before the first init
    WskIsIniting,         \* the push lock: its holder, or "free"
    WskHasIpv4Transport,
    WskHasIpv6Transport,
    WskTransports,        \* TRUE while the transport list buffer is allocated
    resAcq,               \* per resource: times acquired
    resRel,               \* per resource: times released
    acqLog,               \* resources acquired by the init that did the work, in order
    relLog,               \* resources that init released again, in order
    initWork,             \* times the body of WskInit started its work
    overflows,            \* STATUS_BUFFER_OVERFLOW answers so far
    wpc,                  \* per bootstrap thread: where it is
    wStatus,              \* per bootstrap thread: the local Status
    wCalls,               \* per bootstrap thread: calls made
    wRet,                 \* per bootstrap thread: statuses WskInit returned, in order
    \* ---- sockets and the device (SOCKET, WG_DEVICE) ----
    pc,                   \* per thread: the statement it is at
    loc,                  \* per thread: its local variables and return stack
    sockets,              \* per SOCKET object: its fields and the kernel's side of it
    dev,                  \* the WG_DEVICE: Sock4, Sock6, IncomingPort, IsUp, ...
    rcuReaders,           \* threads inside an RCU read section
    os,                   \* the ports other owners hold, per family
    lastBind,             \* the last WskBind: family, port asked, status
    faults,               \* failures injected so far other than port collisions
    \* ---- sending and the peers' endpoints ----
    NoWskSendMessages,    \* the Windows 7 build on a kernel without WskSendMessages
    RoutingGenerationV4,  \* the routing generations (file-scope statics, line 31)
    RoutingGenerationV6,
    peer,                 \* the peer: its Endpoint, its EndpointLock, and who wrote the source
    routes,               \* the machine's forwarding table and the notifications due
    cidr,                 \* an address, a prefix, and the answer of the CIDR match
    \* ---- receiving ----
    datagrams,            \* per WSK_DATAGRAM_INDICATION: where it is and what was done to it
    engine                \* the datagrams the engine holds, and the calls of PacketReceive

wskVars == <<WskInitStatus, WskIsIniting, WskHasIpv4Transport, WskHasIpv6Transport,
             WskTransports, resAcq, resRel, acqLog, relLog, initWork, overflows,
             wpc, wStatus, wCalls, wRet>>

sockVars == <<pc, loc, sockets, dev, rcuReaders, os, lastBind, faults>>

peerVars == <<NoWskSendMessages, RoutingGenerationV4, RoutingGenerationV6, peer, routes,
              cidr>>

recvVars == <<datagrams, engine>>

vars == <<wskVars, sockVars, peerVars, recvVars>>

\* What the actions of each part leave alone.
notWsk == <<sockVars, peerVars, recvVars>>
notSock == <<wskVars, peerVars, recvVars>>
notRecv == <<wskVars, peerVars, rcuReaders, os, lastBind, faults>>
notPeer == <<wskVars, recvVars, sockets, dev, rcuReaders, os, lastBind, faults,
             NoWskSendMessages, cidr>>

(***************************************************************************)
(* WskInit and WskUnload.                                                  *)
(***************************************************************************)
WskThreads == {"w1", "w2"}

\* What WskInit acquires, in the order it acquires it.
WskResources == <<"SocketSendCtxCache", "WskRegistration", "WskProviderNpi",
                  "RouteNotifierV4", "RouteNotifierV6">>

WskResourceSet == {WskResources[i] : i \in 1..Len(WskResources)}

\* The steps of the body of WskInit, in order.
WskStages == <<"ExInitializeLookasideListEx", "WskRegister", "WskCaptureProviderNPI",
               "AllocTransports", "QueryTransports", "SetStaticEventCallbacks",
               "NotifyRouteChange2V4", "NotifyRouteChange2V6">>

WskStageSet == {WskStages[i] : i \in 1..Len(WskStages)}

\* The resource a step acquires when it succeeds ("" for none).
StageResource(stage) ==
    CASE stage = "ExInitializeLookasideListEx" -> "SocketSendCtxCache"
      [] stage = "WskRegister" -> "WskRegistration"
      [] stage = "WskCaptureProviderNPI" -> "WskProviderNpi"
      [] stage = "NotifyRouteChange2V4" -> "RouteNotifierV4"
      [] stage = "NotifyRouteChange2V6" -> "RouteNotifierV6"
      [] OTHER -> ""

\* The step after a step that succeeded.
NextStage(stage) ==
    CASE stage = "ExInitializeLookasideListEx" -> "WskRegister"
      [] stage = "WskRegister" -> "WskCaptureProviderNPI"
      [] stage = "WskCaptureProviderNPI" -> "AllocTransports"
      [] stage = "AllocTransports" -> "QueryTransports"
      [] stage = "QueryTransports" -> "SetStaticEventCallbacks"
      [] stage = "SetStaticEventCallbacks" -> "NotifyRouteChange2V4"
      [] stage = "NotifyRouteChange2V4" -> "NotifyRouteChange2V6"
      [] stage = "NotifyRouteChange2V6" -> "success"

\* A mutation of FailLabel: a failed WskCaptureProviderNPI skips WskDeregister.
FailLabelSkipsDeregister(stage) ==
    CASE stage = "ExInitializeLookasideListEx" -> "cleanupIniting"
      [] stage = "WskRegister" -> "cleanupLookaside"
      [] stage = "WskCaptureProviderNPI" -> "cleanupLookaside"
      [] stage = "NotifyRouteChange2V6" -> "cleanupRouteNotifierV4"
      [] OTHER -> "cleanupWskProviderNPI"

\* The label a failed step jumps to.
FailLabel(stage) ==
    CASE stage = "ExInitializeLookasideListEx" -> "cleanupIniting"
      [] stage = "WskRegister" -> "cleanupLookaside"
      [] stage = "WskCaptureProviderNPI" -> "cleanupWskRegister"
      [] stage = "NotifyRouteChange2V6" -> "cleanupRouteNotifierV4"
      [] OTHER -> "cleanupWskProviderNPI"

WskCleanupLabels == {"cleanupRouteNotifierV4", "cleanupWskProviderNPI",
                     "cleanupWskRegister", "cleanupLookaside"}

\* What a cleanup label releases.
LabelResource(label) ==
    CASE label = "cleanupRouteNotifierV4" -> "RouteNotifierV4"
      [] label = "cleanupWskProviderNPI" -> "WskProviderNpi"
      [] label = "cleanupWskRegister" -> "WskRegistration"
      [] label = "cleanupLookaside" -> "SocketSendCtxCache"

\* The label a cleanup label falls through to.
NextLabel(label) ==
    CASE label = "cleanupRouteNotifierV4" -> "cleanupWskProviderNPI"
      [] label = "cleanupWskProviderNPI" -> "cleanupWskRegister"
      [] label = "cleanupWskRegister" -> "cleanupLookaside"
      [] label = "cleanupLookaside" -> "cleanupIniting"

\* A mutation of AlreadyInited: the status is not looked at again under the lock.
AlreadyInitedNeverUnderLock(Status, locked) ==
    IF locked THEN FALSE ELSE Status # STATUS_RETRY

\* The test of the cached status, before the lock and again under it.
AlreadyInited(Status, locked) == Status # STATUS_RETRY

WskInit0 ==
    /\ WskInitStatus = STATUS_RETRY
    /\ WskIsIniting = "free"
    /\ WskHasIpv4Transport = FALSE
    /\ WskHasIpv6Transport = FALSE
    /\ WskTransports = FALSE
    /\ resAcq = [r \in WskResourceSet |-> 0]
    /\ resRel = [r \in WskResourceSet |-> 0]
    /\ acqLog = <<>>
    /\ relLog = <<>>
    /\ initWork = 0
    /\ overflows = 0
    /\ wpc = [t \in WskThreads |-> "idle"]
    /\ wStatus = [t \in WskThreads |-> STATUS_RETRY]
    /\ wCalls = [t \in WskThreads |-> 0]
    /\ wRet = [t \in WskThreads |-> <<>>]

\* The bootstrap part after a WskInit that succeeded, with any transports found.
WskInit0Done ==
    /\ WskInitStatus = STATUS_SUCCESS
    /\ WskIsIniting = "free"
    /\ WskHasIpv4Transport \in BOOLEAN
    /\ WskHasIpv6Transport \in BOOLEAN
    /\ WskTransports = FALSE
    /\ resAcq = [r \in WskResourceSet |-> 1]
    /\ resRel = [r \in WskResourceSet |-> 0]
    /\ acqLog = WskResources
    /\ relLog = <<>>
    /\ initWork = 1
    /\ overflows = 0
    /\ wpc = [t \in WskThreads |-> "idle"]
    /\ wStatus = [t \in WskThreads |-> STATUS_SUCCESS]
    /\ wCalls = [t \in WskThreads |-> 0]
    /\ wRet = [t \in WskThreads |-> <<>>]

\* WskInit returns Status to its caller.
WskReturn(t, Status) ==
    /\ wpc' = [wpc EXCEPT ![t] = "idle"]
    /\ wRet' = [wRet EXCEPT ![t] = Append(@, Status)]

\* Lines 868-870: the read of the cached status before the lock.
WskInitEnter(t) ==
    /\ wpc[t] = "idle"
    /\ wCalls[t] < MaxCalls
    /\ wCalls' = [wCalls EXCEPT ![t] = @ + 1]
    /\ wStatus' = [wStatus EXCEPT ![t] = WskInitStatus]
    /\ IF AlreadyInited(WskInitStatus, FALSE)
          THEN WskReturn(t, WskInitStatus)
          ELSE /\ wpc' = [wpc EXCEPT ![t] = "acquire"]
               /\ UNCHANGED wRet
    /\ UNCHANGED <<WskInitStatus, WskIsIniting, WskHasIpv4Transport, WskHasIpv6Transport,
                   WskTransports, resAcq, resRel, acqLog, relLog, initWork, overflows>>
    /\ UNCHANGED notWsk

\* Line 871.
WskInitLock(t) ==
    /\ wpc[t] = "acquire"
    /\ WskIsIniting = "free"
    /\ WskIsIniting' = t
    /\ wpc' = [wpc EXCEPT ![t] = "recheck"]
    /\ UNCHANGED <<WskInitStatus, WskHasIpv4Transport, WskHasIpv6Transport,
                   WskTransports, resAcq, resRel, acqLog, relLog, initWork, overflows,
                   wStatus, wCalls, wRet>>
    /\ UNCHANGED notWsk

\* Lines 872-874: the read of the cached status under the lock.
WskInitRecheck(t) ==
    /\ wpc[t] = "recheck"
    /\ wStatus' = [wStatus EXCEPT ![t] = WskInitStatus]
    /\ IF AlreadyInited(WskInitStatus, TRUE)
          THEN /\ wpc' = [wpc EXCEPT ![t] = "cleanupIniting"]
               /\ UNCHANGED <<initWork, acqLog, relLog>>
          ELSE /\ wpc' = [wpc EXCEPT ![t] = WskStages[1]]
               /\ initWork' = initWork + 1
               /\ acqLog' = <<>>
               /\ relLog' = <<>>
    /\ UNCHANGED <<WskInitStatus, WskIsIniting, WskHasIpv4Transport, WskHasIpv6Transport,
                   WskTransports, resAcq, resRel, overflows, wCalls, wRet>>
    /\ UNCHANGED notWsk

\* A step of the body that the kernel completes with success (lines 883-955).
WskInitStageOk(t) ==
    /\ wpc[t] \in WskStageSet \ {"AllocTransports", "QueryTransports"}
    /\ LET r == StageResource(wpc[t]) IN
          IF r = ""
             THEN UNCHANGED <<resAcq, acqLog>>
             ELSE /\ resAcq' = [resAcq EXCEPT ![r] = @ + 1]
                  /\ acqLog' = Append(acqLog, r)
    /\ wStatus' = [wStatus EXCEPT ![t] = STATUS_SUCCESS]
    /\ wpc' = [wpc EXCEPT ![t] = NextStage(wpc[t])]
    /\ UNCHANGED <<WskInitStatus, WskIsIniting, WskHasIpv4Transport, WskHasIpv6Transport,
                   WskTransports, resRel, relLog, initWork, overflows, wCalls, wRet>>
    /\ UNCHANGED notWsk

\* A step of the body that fails: Status is set and the step's label is jumped to.
WskInitStageFail(t) ==
    /\ wpc[t] \in WskStageSet \ {"AllocTransports", "QueryTransports"}
    /\ \E f \in OsFailures : wStatus' = [wStatus EXCEPT ![t] = f]
    /\ wpc' = [wpc EXCEPT ![t] = FailLabel(wpc[t])]
    /\ UNCHANGED <<WskInitStatus, WskIsIniting, WskHasIpv4Transport, WskHasIpv6Transport,
                   WskTransports, resAcq, resRel, acqLog, relLog, initWork, overflows,
                   wCalls, wRet>>
    /\ UNCHANGED notWsk

\* Lines 897-902: the buffer of the transport list.
WskInitAllocTransports(t) ==
    /\ wpc[t] = "AllocTransports"
    /\ \/ /\ WskTransports' = TRUE
          /\ wpc' = [wpc EXCEPT ![t] = NextStage("AllocTransports")]
          /\ UNCHANGED wStatus
       \/ /\ wStatus' = [wStatus EXCEPT ![t] = STATUS_INSUFFICIENT_RESOURCES]
          /\ wpc' = [wpc EXCEPT ![t] = FailLabel("AllocTransports")]
          /\ UNCHANGED WskTransports
    /\ UNCHANGED <<WskInitStatus, WskIsIniting, WskHasIpv4Transport, WskHasIpv6Transport,
                   resAcq, resRel, acqLog, relLog, initWork, overflows, wCalls, wRet>>
    /\ UNCHANGED notWsk

\* Lines 903-934: the transport list query; the buffer is freed on every path.
WskInitQueryTransports(t) ==
    /\ wpc[t] = "QueryTransports"
    /\ WskTransports' = FALSE
    /\ \/ /\ \E has4 \in BOOLEAN, has6 \in BOOLEAN :
                /\ WskHasIpv4Transport' = (WskHasIpv4Transport \/ has4)
                /\ WskHasIpv6Transport' = (WskHasIpv6Transport \/ has6)
          /\ wStatus' = [wStatus EXCEPT ![t] = STATUS_SUCCESS]
          /\ wpc' = [wpc EXCEPT ![t] = NextStage("QueryTransports")]
          /\ UNCHANGED overflows
       \/ /\ overflows < MaxOverflow
          /\ overflows' = overflows + 1
          /\ wStatus' = [wStatus EXCEPT ![t] = STATUS_BUFFER_OVERFLOW]
          /\ wpc' = [wpc EXCEPT ![t] = "AllocTransports"]
          /\ UNCHANGED <<WskHasIpv4Transport, WskHasIpv6Transport>>
       \/ /\ \E f \in OsFailures : wStatus' = [wStatus EXCEPT ![t] = f]
          /\ wpc' = [wpc EXCEPT ![t] = FailLabel("QueryTransports")]
          /\ UNCHANGED <<WskHasIpv4Transport, WskHasIpv6Transport, overflows>>
    /\ UNCHANGED <<WskInitStatus, WskIsIniting, resAcq, resRel, acqLog, relLog,
                   initWork, wCalls, wRet>>
    /\ UNCHANGED notWsk

\* Lines 957-959.
WskInitSucceed(t) ==
    /\ wpc[t] = "success"
    /\ WskInitStatus' = STATUS_SUCCESS
    /\ WskIsIniting' = "free"
    /\ WskReturn(t, STATUS_SUCCESS)
    /\ UNCHANGED <<WskHasIpv4Transport, WskHasIpv6Transport, WskTransports, resAcq,
                   resRel, acqLog, relLog, initWork, overflows, wStatus, wCalls>>
    /\ UNCHANGED notWsk

\* Lines 961-968: one cleanup label, falling through to the next.
WskInitCleanup(t) ==
    /\ wpc[t] \in WskCleanupLabels
    /\ LET r == LabelResource(wpc[t]) IN
          /\ resRel' = [resRel EXCEPT ![r] = @ + 1]
          /\ relLog' = Append(relLog, r)
    /\ wpc' = [wpc EXCEPT ![t] = NextLabel(wpc[t])]
    /\ UNCHANGED <<WskInitStatus, WskIsIniting, WskHasIpv4Transport, WskHasIpv6Transport,
                   WskTransports, resAcq, acqLog, initWork, overflows, wStatus, wCalls,
                   wRet>>
    /\ UNCHANGED notWsk

\* Lines 969-972.
WskInitCleanupIniting(t) ==
    /\ wpc[t] = "cleanupIniting"
    /\ WskInitStatus' = wStatus[t]
    /\ WskIsIniting' = "free"
    /\ WskReturn(t, wStatus[t])
    /\ UNCHANGED <<WskHasIpv4Transport, WskHasIpv6Transport, WskTransports, resAcq,
                   resRel, acqLog, relLog, initWork, overflows, wStatus, wCalls>>
    /\ UNCHANGED notWsk

\* Line 978.
WskUnloadLock(t) ==
    /\ wpc[t] = "idle"
    /\ wCalls[t] < MaxCalls
    /\ WskIsIniting = "free"
    /\ WskIsIniting' = t
    /\ wCalls' = [wCalls EXCEPT ![t] = @ + 1]
    /\ wpc' = [wpc EXCEPT ![t] = "unload"]
    /\ UNCHANGED <<WskInitStatus, WskHasIpv4Transport, WskHasIpv6Transport,
                   WskTransports, resAcq, resRel, acqLog, relLog, initWork, overflows,
                   wStatus, wRet>>
    /\ UNCHANGED notWsk

\* Lines 979-987: the teardown, run only when the cached status is success.
WskUnloadBody(t) ==
    /\ wpc[t] = "unload"
    /\ IF WskInitStatus # STATUS_SUCCESS
          THEN UNCHANGED resRel
          ELSE resRel' = [r \in WskResourceSet |-> resRel[r] + 1]
    /\ WskIsIniting' = "free"
    /\ wpc' = [wpc EXCEPT ![t] = "idle"]
    /\ UNCHANGED <<WskInitStatus, WskHasIpv4Transport, WskHasIpv6Transport,
                   WskTransports, resAcq, acqLog, relLog, initWork, overflows,
                   wStatus, wCalls, wRet>>
    /\ UNCHANGED notWsk

WskInit(t) ==
    \/ WskInitEnter(t)
    \/ WskInitLock(t)
    \/ WskInitRecheck(t)
    \/ WskInitStageOk(t)
    \/ WskInitStageFail(t)
    \/ WskInitAllocTransports(t)
    \/ WskInitQueryTransports(t)
    \/ WskInitSucceed(t)
    \/ WskInitCleanup(t)
    \/ WskInitCleanupIniting(t)

WskUnload(t) ==
    \/ WskUnloadLock(t)
    \/ WskUnloadBody(t)

NextWsk ==
    \E t \in WskThreads : WskInit(t) \/ WskUnload(t)

(***************************************************************************)
(* Sockets, the device and its threads.                                    *)
(*                                                                         *)
(* A SOCKET object is named by a number 1..MaxSockets; 0 is NULL.          *)
(* Functions that call one another keep a stack of return points.          *)
(***************************************************************************)
\* SOCKET objects that may exist at a time.
MaxSockets == 4
\* UDP ports of the model (0 asks the kernel for an ephemeral port).
MaxPort == 3
\* Allocation and kernel failures (other than port collisions) one call may meet.
MaxFaults == 1
\* The retry budget of SocketInit on an ephemeral-port collision.
MaxRetries == 100

AF_INET == 4
AF_INET6 == 6

STATUS_ADDRESS_ALREADY_EXISTS == "STATUS_ADDRESS_ALREADY_EXISTS"
STATUS_NETWORK_UNREACHABLE == "STATUS_NETWORK_UNREACHABLE"
STATUS_INVALID_ADDRESS == "STATUS_INVALID_ADDRESS"
STATUS_INTEGER_OVERFLOW == "STATUS_INTEGER_OVERFLOW"
STATUS_ALREADY_COMPLETE == "STATUS_ALREADY_COMPLETE"
STATUS_INVALID_PARAMETER == "STATUS_INVALID_PARAMETER"
STATUS_BAD_NETWORK_PATH == "STATUS_BAD_NETWORK_PATH"
STATUS_NOT_FOUND == "STATUS_NOT_FOUND"

SockIds == 1..MaxSockets
Ports == 1..MaxPort

SendThreads == {"s1", "s2"}
ReinitThreads == {"r1", "r2"}
InitThreads == {"i1"}
\* The kernel's threads that run the Receive callback.
RecvThreads == {"k1", "k2"}
\* The engine's threads that update the peer's endpoint.
EndpointThreads == {"e1", "e2"}
SockThreads ==
    SendThreads \cup ReinitThreads \cup InitThreads \cup RecvThreads \cup EndpointThreads

\* A SOCKET that does not exist: MemAllocate has not returned it, or MemFree took it.
NoSocket == [obj |-> "none", Sock |-> "null", family |-> 0, port |-> 0,
             ItemsInFlight |-> 0, rundown |-> FALSE, callbacks |-> 0, closeCalls |-> 0]

\* No WskBind yet.
NoBind == [family |-> 0, port |-> 0, Status |-> STATUS_SUCCESS]

\* An ENDPOINT after RtlZeroMemory.  storedAt is how many notifications of
\* the endpoint's family had run when its RoutingGeneration was read from
\* the family's counter (-1 when it was not read from one).
NoEndpoint == [family |-> 0, addr |-> 0, src |-> 0, ifindex |-> 0,
               RoutingGeneration |-> 0, UpdateGeneration |-> 0, storedAt |-> -1]

\* No WSK_DATAGRAM_INDICATION.
NoData == [family |-> 0, addr |-> 0, ControlInfo |-> <<>>, Length |-> 0]

\* The largest ULONG, with the widths of ULONG and SIZE_T scaled from 32 and
\* 64 bits to 16 and 32.
MaxULong == 2^16 - 1

\* Lines 247-248: no route found yet.
NoBest == [BestIndex |-> 0, BestCidr |-> 0, BestMetric |-> MaxULong, BestLuid |-> 0]

\* The locals of a thread that is in no function.  Ctx is the SOCKET_SEND_CTX
\* of the thread's send: its Endpoint and IsNbl, the state of its IRP, how
\* often the context and the buffer of the send have been allocated, and how
\* often the context, the buffer and the chain have been freed.  TableAt is
\* how many notifications of the table's family had run when the resolver
\* queried the table it holds.
NoLocals == [New4 |-> 0, New6 |-> 0, Old4 |-> 0, Old6 |-> 0, Port |-> 0,
             ReqPort |-> 0, Retries |-> 0, Sa4 |-> 0, Sa6 |-> 0,
             Status |-> STATUS_SUCCESS, Socket |-> 0, CloseArg |-> 0, family |-> 0,
             wait |-> {}, stack |-> <<>>, calls |-> 0, attempts |-> 0, retried |-> {},
             Endpoint |-> NoEndpoint, IsNbl |-> FALSE, Irp |-> "none",
             ctxTaken |-> 0, mdlTaken |-> 0,
             ctxFrees |-> 0, mdlFrees |-> 0, nblFrees |-> 0,
             RefCount |-> 0, subIrps |-> 0, Buf |-> 0, Packets |-> 0,
             Data |-> NoData, DataIndication |-> <<>>, First |-> <<>>, Discards |-> 0,
             UpdateGeneration |-> 0, Seen |-> {}, Table |-> <<>>, TableHeld |-> FALSE,
             TableAt |-> -1,
             Best |-> NoBest, SrcAddr |-> 0,
             Sent |-> <<>>, AllKeepalive |-> FALSE]

\* The socket part when nothing of it runs.
SockOff ==
    /\ pc = [t \in SockThreads |-> "off"]
    /\ loc = [t \in SockThreads |-> NoLocals]
    /\ sockets = [s \in SockIds |-> NoSocket]
    /\ dev = [Sock4 |-> 0, Sock6 |-> 0, IncomingPort |-> 0, IsUp |-> FALSE,
              SocketUpdateLock |-> "free", ifInDiscards |-> 0]
    /\ rcuReaders = {}
    /\ os = [busy4 |-> {}, busy6 |-> {}]
    /\ lastBind = NoBind
    /\ faults = 0

\* A peer with no endpoint.  readers and writer are the holders of
\* EndpointLock; srcBy is the function that wrote the source last, srcSeen
\* the remote addresses the resolver's lookup read for it.
NoPeer == [Endpoint |-> NoEndpoint, readers |-> {}, writer |-> "free",
           srcBy |-> "none", srcSeen |-> {}]

\* No address matched against a prefix.
NoCidr == [family |-> 0, Addr |-> 0, Prefix |-> [PrefixLength |-> 0, Prefix |-> 0],
           matched |-> FALSE, Match |-> FALSE]

(***************************************************************************)
(* RCU (rcu.h).  A read section runs from RcuReadLock to RcuReadUnlock;     *)
(* RcuSynchronize returns once every read section that was open when it    *)
(* was called has ended.                                                   *)
(***************************************************************************)
RcuReadLock(readers, t) == readers \cup {t}

RcuReadUnlock(readers, t) == readers \ {t}

\* The read sections RcuSynchronize waits for.
RcuSynchronize(readers) == readers

\* Datagrams of the model.
MaxDatagrams == 2
\* Datagrams one indication list may hold.
MaxList == 2

DatagramIds == 1..MaxDatagrams

\* A datagram the kernel has not indicated yet.  Socket is the SOCKET whose
\* callback received it, InFlight the in-flight references it holds, Released
\* the WskRelease calls made for it; the rest records what Receive did with it.
NoDatagram == [Socket |-> 0, Length |-> 0, at |-> "kernel", InFlight |-> 0, Released |-> 0,
               skipped |-> FALSE, batched |-> 0, closing |-> FALSE]

\* The receiving part when nothing of it runs.
RecvOff ==
    /\ datagrams = [d \in DatagramIds |-> NoDatagram]
    /\ engine = [held |-> {}, PacketReceive |-> 0]

\* Thread t goes to statement p with locals l.
Goto(t, p, l) ==
    /\ pc' = [pc EXCEPT ![t] = p]
    /\ loc' = [loc EXCEPT ![t] = l]

\* Thread t calls the function at statement f, to come back at statement r.
Call(t, f, r, l) == Goto(t, f, [l EXCEPT !.stack = <<r>> \o @])

\* What is left of the locals l when the outermost function returns: the
\* status returned, the send context (which lives until its IRP completes),
\* and the count of calls.
Outlives(l) ==
    [NoLocals EXCEPT !.Status = l.Status, !.calls = l.calls,
                     !.IsNbl = l.IsNbl, !.Irp = l.Irp,
                     !.ctxTaken = l.ctxTaken, !.mdlTaken = l.mdlTaken,
                     !.ctxFrees = l.ctxFrees,
                     !.mdlFrees = l.mdlFrees, !.nblFrees = l.nblFrees,
                     !.RefCount = l.RefCount, !.subIrps = l.subIrps,
                     !.Sent = l.Sent, !.AllKeepalive = l.AllKeepalive]

\* Thread t returns from the function it is in.
Return(t, l) ==
    Goto(t, Head(l.stack),
         IF Tail(l.stack) = <<>> THEN Outlives(l) ELSE [l EXCEPT !.stack = Tail(@)])

(***************************************************************************)
(* CloseSocket (lines 640-665).  The argument is loc[t].CloseArg.          *)
(***************************************************************************)
\* Lines 644-646: NULL returns; otherwise the wait for the rundown begins, after
\* which ExAcquireRundownProtection fails.
CloseSocketBegin(t) ==
    /\ pc[t] = "CloseSocket"
    /\ LET s == loc[t].CloseArg IN
          IF s = 0
             THEN /\ Return(t, loc[t])
                  /\ UNCHANGED sockets
             ELSE /\ sockets' = [sockets EXCEPT ![s].rundown = TRUE,
                                                ![s].closeCalls = @ + 1]
                  /\ Goto(t, "cs_wait", loc[t])
    /\ UNCHANGED <<dev, rcuReaders, os, lastBind, faults>>
    /\ UNCHANGED notSock

\* Line 646: ExWaitForRundownProtectionRelease returns when nothing is in flight.
CloseSocketDrained(t) ==
    /\ pc[t] = "cs_wait"
    /\ sockets[loc[t].CloseArg].ItemsInFlight = 0
    /\ Goto(t, IF sockets[loc[t].CloseArg].Sock # "null" THEN "cs_irp" ELSE "cs_free",
            loc[t])
    /\ UNCHANGED <<sockets, dev, rcuReaders, os, lastBind, faults>>
    /\ UNCHANGED notSock

\* Lines 651-653: the IRP of the close; without one the socket is freed unclosed.
CloseSocketIrp(t) ==
    /\ pc[t] = "cs_irp"
    /\ \/ /\ Goto(t, "cs_close", loc[t])
          /\ UNCHANGED faults
       \/ /\ Goto(t, "cs_free", loc[t])
          /\ faults < MaxFaults
          /\ faults' = faults + 1
    /\ UNCHANGED <<sockets, dev, rcuReaders, os, lastBind>>
    /\ UNCHANGED notSock

\* Lines 654-661: WskCloseSocket and the wait for its completion; the kernel
\* completes the close once no callback of the socket is running.
CloseSocketWsk(t) ==
    /\ pc[t] = "cs_close"
    /\ sockets[loc[t].CloseArg].callbacks = 0
    /\ sockets' = [sockets EXCEPT ![loc[t].CloseArg].Sock = "closed"]
    /\ Goto(t, "cs_free", loc[t])
    /\ UNCHANGED <<dev, rcuReaders, os, lastBind, faults>>
    /\ UNCHANGED notSock

\* Line 664: MemFree(Socket).
CloseSocketFree(t) ==
    /\ pc[t] = "cs_free"
    /\ LET s == loc[t].CloseArg IN
          sockets' = [sockets EXCEPT ![s] =
                         IF @.Sock = "open"
                            THEN [@ EXCEPT !.obj = "freed"]
                            ELSE [NoSocket EXCEPT !.obj = "freed"]]
    /\ Return(t, loc[t])
    /\ UNCHANGED <<dev, rcuReaders, os, lastBind, faults>>
    /\ UNCHANGED notSock

CloseSocket(t) ==
    \/ CloseSocketBegin(t)
    \/ CloseSocketDrained(t)
    \/ CloseSocketIrp(t)
    \/ CloseSocketWsk(t)
    \/ CloseSocketFree(t)

(***************************************************************************)
(* SocketReinit (lines 838-853).  The arguments are loc[t].New4, .New6     *)
(* and .Port.                                                              *)
(***************************************************************************)
\* A mutation of GracePeriod: the old sockets are closed without waiting for readers.
GracePeriodSkipped(readers) == {}

\* Line 850: the call of RcuSynchronize.
GracePeriod(readers) == RcuSynchronize(readers)

\* A mutation of SocketReinitLock: the lock is taken without waiting for it.
SocketReinitLockNotExclusive(t) ==
    /\ pc[t] = "SocketReinit"
    /\ dev' = [dev EXCEPT !.SocketUpdateLock = t]
    /\ Goto(t, "ri_swap4", loc[t])
    /\ UNCHANGED <<sockets, rcuReaders, os, lastBind, faults>>
    /\ UNCHANGED notSock

\* Line 842.
SocketReinitLock(t) ==
    /\ pc[t] = "SocketReinit"
    /\ dev.SocketUpdateLock = "free"
    /\ dev' = [dev EXCEPT !.SocketUpdateLock = t]
    /\ Goto(t, "ri_swap4", loc[t])
    /\ UNCHANGED <<sockets, rcuReaders, os, lastBind, faults>>
    /\ UNCHANGED notSock

\* Lines 843-845.
SocketReinitSwap4(t) ==
    /\ pc[t] = "ri_swap4"
    /\ dev' = [dev EXCEPT !.Sock4 = loc[t].New4]
    /\ Goto(t, "ri_swap6", [loc[t] EXCEPT !.Old4 = dev.Sock4, !.Old6 = dev.Sock6])
    /\ UNCHANGED <<sockets, rcuReaders, os, lastBind, faults>>
    /\ UNCHANGED notSock

\* Lines 846-848.
SocketReinitSwap6(t) ==
    /\ pc[t] = "ri_swap6"
    /\ dev' = [dev EXCEPT !.Sock6 = loc[t].New6,
                          !.IncomingPort = IF loc[t].New4 # 0 \/ loc[t].New6 # 0
                                              THEN loc[t].Port ELSE @]
    /\ Goto(t, "ri_unlock", loc[t])
    /\ UNCHANGED <<sockets, rcuReaders, os, lastBind, faults>>
    /\ UNCHANGED notSock

\* Lines 849-850: the lock is released and RcuSynchronize is entered.
SocketReinitUnlock(t) ==
    /\ pc[t] = "ri_unlock"
    /\ dev' = [dev EXCEPT !.SocketUpdateLock = "free"]
    /\ Goto(t, "ri_sync", [loc[t] EXCEPT !.wait = GracePeriod(rcuReaders)])
    /\ UNCHANGED <<sockets, rcuReaders, os, lastBind, faults>>
    /\ UNCHANGED notSock

\* Lines 850-851: RcuSynchronize returns; CloseSocket(Old4).
SocketReinitClose4(t) ==
    /\ pc[t] = "ri_sync"
    /\ loc[t].wait = {}
    /\ Call(t, "CloseSocket", "ri_close6", [loc[t] EXCEPT !.CloseArg = loc[t].Old4])
    /\ UNCHANGED <<sockets, dev, rcuReaders, os, lastBind, faults>>
    /\ UNCHANGED notSock

\* Line 852: CloseSocket(Old6).
SocketReinitClose6(t) ==
    /\ pc[t] = "ri_close6"
    /\ Call(t, "CloseSocket", "ri_return", [loc[t] EXCEPT !.CloseArg = loc[t].Old6])
    /\ UNCHANGED <<sockets, dev, rcuReaders, os, lastBind, faults>>
    /\ UNCHANGED notSock

\* Line 853.
SocketReinitReturn(t) ==
    /\ pc[t] = "ri_return"
    /\ Return(t, loc[t])
    /\ UNCHANGED <<sockets, dev, rcuReaders, os, lastBind, faults>>
    /\ UNCHANGED notSock

SocketReinit(t) ==
    \/ SocketReinitLock(t)
    \/ SocketReinitSwap4(t)
    \/ SocketReinitSwap6(t)
    \/ SocketReinitUnlock(t)
    \/ SocketReinitClose4(t)
    \/ SocketReinitClose6(t)
    \/ SocketReinitReturn(t)

(***************************************************************************)
(* The kernel's ports.  A port is taken in a family when another owner     *)
(* holds it or an open socket of ours is bound to it.                      *)
(***************************************************************************)
Held(family) == IF family = AF_INET THEN os.busy4 ELSE os.busy6

PortTaken(family, p) ==
    \/ p \in Held(family)
    \/ \E s \in SockIds : /\ sockets[s].Sock = "open"
                          /\ sockets[s].family = family
                          /\ sockets[s].port = p

\* The ports WskBind may bind for a request of port p (0: any free port).
BindChoices(family, p) ==
    IF p = 0 THEN {q \in Ports : ~PortTaken(family, q)}
    ELSE IF PortTaken(family, p) THEN {} ELSE {p}

(***************************************************************************)
(* CreateAndBindSocket (lines 693-792).  loc[t].family is Sa->sa_family,   *)
(* Sa is loc[t].Sa4 or loc[t].Sa6, *RetSocket is loc[t].New4 or .New6.     *)
(***************************************************************************)
\* MemAllocate hands out the memory of no live SOCKET; an object whose kernel
\* socket was never closed keeps its number, so that the leak stays visible.
Allocatable(s) == sockets[s].obj # "live" /\ sockets[s].Sock # "open"

SaPort(l) == IF l.family = AF_INET THEN l.Sa4 ELSE l.Sa6

\* cleanupIrp / cleanupSocket (lines 787-791): CloseSocket(Socket), then return Status.
CreateAndBindCleanup(t, l) ==
    Call(t, "CloseSocket", "cb_fail", [l EXCEPT !.CloseArg = l.Socket])

\* Lines 697-703.
CreateAndBindAlloc(t) ==
    /\ pc[t] = "CreateAndBindSocket"
    /\ \/ /\ \E s \in SockIds :
                /\ Allocatable(s)
                /\ \A r \in 1..(s - 1) : ~Allocatable(r)
                /\ sockets' = [sockets EXCEPT ![s] =
                                  [NoSocket EXCEPT !.obj = "live", !.family = loc[t].family]]
                /\ Goto(t, "cb_irp", [loc[t] EXCEPT !.Socket = s,
                                         !.Status = STATUS_INSUFFICIENT_RESOURCES])
          /\ UNCHANGED faults
       \/ /\ Return(t, [loc[t] EXCEPT !.Status = STATUS_INSUFFICIENT_RESOURCES])
          /\ faults < MaxFaults
          /\ faults' = faults + 1
          /\ UNCHANGED sockets
    /\ UNCHANGED <<dev, rcuReaders, os, lastBind>>
    /\ UNCHANGED notSock

\* Lines 704-706.
CreateAndBindIrp(t) ==
    /\ pc[t] = "cb_irp"
    /\ \/ /\ Goto(t, "cb_socket", loc[t])
          /\ UNCHANGED faults
       \/ /\ CreateAndBindCleanup(t, loc[t])
          /\ faults < MaxFaults
          /\ faults' = faults + 1
    /\ UNCHANGED <<sockets, dev, rcuReaders, os, lastBind>>
    /\ UNCHANGED notSock

\* Lines 707-731: WskSocket.
CreateAndBindWskSocket(t) ==
    /\ pc[t] = "cb_socket"
    /\ \/ /\ sockets' = [sockets EXCEPT ![loc[t].Socket].Sock = "open"]
          /\ Goto(t, "cb_sockopt", [loc[t] EXCEPT !.Status = STATUS_SUCCESS])
          /\ UNCHANGED faults
       \/ /\ \E f \in OsFailures : CreateAndBindCleanup(t, [loc[t] EXCEPT !.Status = f])
          /\ faults < MaxFaults
          /\ faults' = faults + 1
          /\ UNCHANGED sockets
    /\ UNCHANGED <<dev, rcuReaders, os, lastBind>>
    /\ UNCHANGED notSock

\* Lines 732-754: the socket options (two SetSockOpt calls).
CreateAndBindSetSockOpt(t) ==
    /\ pc[t] = "cb_sockopt"
    /\ \/ /\ Goto(t, "cb_bind", [loc[t] EXCEPT !.Status = STATUS_SUCCESS])
          /\ UNCHANGED faults
       \/ /\ \E f \in OsFailures : CreateAndBindCleanup(t, [loc[t] EXCEPT !.Status = f])
          /\ faults < MaxFaults
          /\ faults' = faults + 1
    /\ UNCHANGED <<sockets, dev, rcuReaders, os, lastBind>>
    /\ UNCHANGED notSock

\* Lines 756-770: WskBind.
CreateAndBindWskBind(t) ==
    /\ pc[t] = "cb_bind"
    /\ LET l == loc[t]
           choices == BindChoices(l.family, SaPort(l))
           entry(st) == [family |-> l.family, port |-> SaPort(l), Status |-> st]
       IN \/ /\ \E q \in choices :
                   sockets' = [sockets EXCEPT ![l.Socket].port = q]
             /\ lastBind' = entry(STATUS_SUCCESS)
             /\ Goto(t, "cb_getlocal", [l EXCEPT !.Status = STATUS_SUCCESS])
             /\ UNCHANGED faults
          \/ /\ choices = {}
             /\ lastBind' = entry(STATUS_ADDRESS_ALREADY_EXISTS)
             /\ CreateAndBindCleanup(t, [l EXCEPT !.Status = STATUS_ADDRESS_ALREADY_EXISTS])
             /\ UNCHANGED <<sockets, faults>>
          \/ /\ \E f \in OsFailures :
                   /\ lastBind' = entry(f)
                   /\ CreateAndBindCleanup(t, [l EXCEPT !.Status = f])
             /\ faults < MaxFaults
             /\ faults' = faults + 1
             /\ UNCHANGED sockets
    /\ UNCHANGED <<dev, rcuReaders, os>>
    /\ UNCHANGED notSock

\* Lines 772-785: WskGetLocalAddress writes the bound address into Sa; on
\* success the socket is returned through RetSocket.
CreateAndBindGetLocalAddress(t) ==
    /\ pc[t] = "cb_getlocal"
    /\ LET l == loc[t]
           q == sockets[l.Socket].port
       IN \/ /\ Return(t, IF l.family = AF_INET
                             THEN [l EXCEPT !.Sa4 = q, !.New4 = l.Socket,
                                            !.Status = STATUS_SUCCESS]
                             ELSE [l EXCEPT !.Sa6 = q, !.New6 = l.Socket,
                                            !.Status = STATUS_SUCCESS])
             /\ UNCHANGED faults
          \/ /\ \E f \in OsFailures : CreateAndBindCleanup(t, [l EXCEPT !.Status = f])
             /\ faults < MaxFaults
             /\ faults' = faults + 1
    /\ UNCHANGED <<sockets, dev, rcuReaders, os, lastBind>>
    /\ UNCHANGED notSock

\* Line 791: return Status, after CloseSocket.
CreateAndBindFail(t) ==
    /\ pc[t] = "cb_fail"
    /\ Return(t, loc[t])
    /\ UNCHANGED <<sockets, dev, rcuReaders, os, lastBind, faults>>
    /\ UNCHANGED notSock

CreateAndBindSocket(t) ==
    \/ CreateAndBindAlloc(t)
    \/ CreateAndBindIrp(t)
    \/ CreateAndBindWskSocket(t)
    \/ CreateAndBindSetSockOpt(t)
    \/ CreateAndBindWskBind(t)
    \/ CreateAndBindGetLocalAddress(t)
    \/ CreateAndBindFail(t)

(***************************************************************************)
(* SocketInit (lines 794-836).  loc[t].ReqPort is the argument Port.       *)
(***************************************************************************)
\* A mutation of RetryAllowed: the budget is tested with <= for <.
RetryAllowedOffByOne(Status, Port, Retries) ==
    Status = STATUS_ADDRESS_ALREADY_EXISTS /\ Port = 0 /\ Retries <= MaxRetries

\* Line 820: Status == STATUS_ADDRESS_ALREADY_EXISTS && !Port && Retries++ < 100.
RetryAllowed(Status, Port, Retries) ==
    Status = STATUS_ADDRESS_ALREADY_EXISTS /\ Port = 0 /\ Retries < MaxRetries

\* Line 820: Retries++ is evaluated only when the two tests before it hold.
RetriesAfterTest(Status, Port, Retries) ==
    IF Status = STATUS_ADDRESS_ALREADY_EXISTS /\ Port = 0 THEN Retries + 1 ELSE Retries

\* Lines 796-802: the call (one a behaviour) and its locals.
SocketInitEnter(t) ==
    /\ pc[t] = "idle"
    /\ loc[t].calls = 0
    /\ \E Port \in 0..MaxPort :
          Call(t, "si_retry", "idle",
               [NoLocals EXCEPT !.ReqPort = Port, !.Sa4 = Port, !.Sa6 = 0,
                                !.calls = loc[t].calls + 1])
    /\ lastBind' = NoBind
    /\ faults' = 0
    /\ UNCHANGED <<sockets, dev, rcuReaders, os>>
    /\ UNCHANGED notSock

\* Lines 804-810: the retry label and the IPv4 socket.
SocketInitCreate4(t) ==
    /\ pc[t] = "si_retry"
    /\ LET l == [loc[t] EXCEPT !.attempts = @ + 1] IN
          IF WskHasIpv4Transport
             THEN Call(t, "CreateAndBindSocket", "si_after4", [l EXCEPT !.family = AF_INET])
             ELSE Goto(t, "si_v6", l)
    /\ UNCHANGED <<sockets, dev, rcuReaders, os, lastBind, faults>>
    /\ UNCHANGED notSock

\* Lines 808-809.
SocketInitAfter4(t) ==
    /\ pc[t] = "si_after4"
    /\ Goto(t, IF NT_SUCCESS(loc[t].Status) THEN "si_v6" ELSE "si_out", loc[t])
    /\ UNCHANGED <<sockets, dev, rcuReaders, os, lastBind, faults>>
    /\ UNCHANGED notSock

\* Lines 812-815: the IPv6 socket, on the port of the IPv4 one.
SocketInitCreate6(t) ==
    /\ pc[t] = "si_v6"
    /\ IF WskHasIpv6Transport
          THEN Call(t, "CreateAndBindSocket", "si_after6",
                    [loc[t] EXCEPT !.family = AF_INET6, !.Sa6 = loc[t].Sa4])
          ELSE Goto(t, "si_reinit", loc[t])
    /\ UNCHANGED <<sockets, dev, rcuReaders, os, lastBind, faults>>
    /\ UNCHANGED notSock

\* Lines 816-818: on failure CloseSocket(New4).
SocketInitAfter6(t) ==
    /\ pc[t] = "si_after6"
    /\ IF NT_SUCCESS(loc[t].Status)
          THEN Goto(t, "si_reinit", loc[t])
          ELSE Call(t, "CloseSocket", "si_closed4",
                    [loc[t] EXCEPT !.CloseArg = loc[t].New4])
    /\ UNCHANGED <<sockets, dev, rcuReaders, os, lastBind, faults>>
    /\ UNCHANGED notSock

\* Lines 819-822: New4 = NULL, then retry or give up.
SocketInitRetry(t) ==
    /\ pc[t] = "si_closed4"
    /\ LET l == loc[t]
           again == RetryAllowed(l.Status, l.ReqPort, l.Retries)
           m == [l EXCEPT !.New4 = 0,
                          !.Retries = RetriesAfterTest(l.Status, l.ReqPort, l.Retries),
                          !.retried = @ \cup (IF again
                                                 THEN {<<l.Status, l.ReqPort, lastBind>>}
                                                 ELSE {})]
       IN Goto(t, IF again THEN "si_retry" ELSE "si_out", m)
    /\ UNCHANGED <<sockets, dev, rcuReaders, os, lastBind, faults>>
    /\ UNCHANGED notSock

\* Lines 826-832: SocketReinit with the port the sockets were bound to.
SocketInitReinit(t) ==
    /\ pc[t] = "si_reinit"
    /\ Call(t, "SocketReinit", "si_success",
            [loc[t] EXCEPT !.Port = IF WskHasIpv4Transport THEN loc[t].Sa4
                                    ELSE IF WskHasIpv6Transport THEN loc[t].Sa6
                                    ELSE loc[t].ReqPort])
    /\ UNCHANGED <<sockets, dev, rcuReaders, os, lastBind, faults>>
    /\ UNCHANGED notSock

\* Line 833.
SocketInitSuccess(t) ==
    /\ pc[t] = "si_success"
    /\ Goto(t, "si_out", [loc[t] EXCEPT !.Status = STATUS_SUCCESS])
    /\ UNCHANGED <<sockets, dev, rcuReaders, os, lastBind, faults>>
    /\ UNCHANGED notSock

\* Lines 834-835: return Status.
SocketInitOut(t) ==
    /\ pc[t] = "si_out"
    /\ Return(t, loc[t])
    /\ UNCHANGED <<sockets, dev, rcuReaders, os, lastBind, faults>>
    /\ UNCHANGED notSock

SocketInit(t) ==
    \/ SocketInitEnter(t)
    \/ SocketInitCreate4(t)
    \/ SocketInitAfter4(t)
    \/ SocketInitCreate6(t)
    \/ SocketInitAfter6(t)
    \/ SocketInitRetry(t)
    \/ SocketInitReinit(t)
    \/ SocketInitSuccess(t)
    \/ SocketInitOut(t)

NextSockInit ==
    \E t \in InitThreads :
        SocketInit(t) \/ CreateAndBindSocket(t) \/ SocketReinit(t) \/ CloseSocket(t)

(***************************************************************************)
(* SendComplete (lines 60-73): the completion routine of the IRP of a      *)
(* send.  The kernel runs it once for every IRP it was given, at any time  *)
(* after it was given it.                                                  *)
(***************************************************************************)
\* Lines 67-71 on the send whose locals are l.
Completed(l) ==
    [l EXCEPT !.Irp = "completed",
              !.nblFrees = IF l.IsNbl THEN @ + 1 ELSE @,
              !.mdlFrees = IF l.IsNbl THEN @ ELSE @ + 1,
              !.ctxFrees = @ + 1]

SendComplete(t) ==
    /\ loc[t].Irp = "pending"
    /\ loc' = [loc EXCEPT ![t] = Completed(loc[t])]
    /\ UNCHANGED <<pc, sockets, dev, rcuReaders, os, lastBind, faults>>
    /\ UNCHANGED notSock

(***************************************************************************)
(* SendAsync (lines 148-197).  Ctx is in loc[t].                           *)
(***************************************************************************)
\* Lines 155-159: the IRP is set up and the read section begins.
SendAsyncRcuReadLock(t) ==
    /\ pc[t] = "SendAsync"
    /\ rcuReaders' = RcuReadLock(rcuReaders, t)
    /\ Goto(t, "sa_deref", [loc[t] EXCEPT !.Socket = 0])
    /\ UNCHANGED <<sockets, dev, os, lastBind, faults>>
    /\ UNCHANGED notSock

\* Lines 160-168: the socket of the endpoint's family, or none.
SendAsyncDereference(t) ==
    /\ pc[t] = "sa_deref"
    /\ LET family == loc[t].Endpoint.family
           Socket == IF family = AF_INET THEN dev.Sock4
                     ELSE IF family = AF_INET6 THEN dev.Sock6
                     ELSE 0
       IN IF Socket = 0
             THEN Goto(t, "sa_unlock", [loc[t] EXCEPT !.Status = STATUS_NETWORK_UNREACHABLE])
             ELSE Goto(t, "sa_dispatch", [loc[t] EXCEPT !.Socket = Socket])
    /\ UNCHANGED <<sockets, dev, rcuReaders, os, lastBind, faults>>
    /\ UNCHANGED notSock

\* Lines 169-192: Socket->Sock->Dispatch is read and the send is issued: a
\* chain through WskSendMessages or its polyfill, a buffer through WskSendTo.
\* The kernel completes the IRP it is given whatever becomes of the send.  On
\* a SOCKET that was freed the read is of freed memory: the send is issued, or
\* nothing is, or the machine stops.
SendAsyncDispatch(t) ==
    /\ pc[t] = "sa_dispatch"
    /\ LET l == loc[t]
           issued == IF l.IsNbl /\ NoWskSendMessages
                        THEN Call(t, "PolyfilledWskSendMessages", "sa_sent", l)
                        ELSE Goto(t, "sa_sent", [l EXCEPT !.Irp = "pending"])
       IN IF sockets[l.Socket].obj = "live"
             THEN issued
             ELSE \/ issued
                  \/ Goto(t, "sa_sent", l)
                  \/ Goto(t, "bugcheck", l)
    /\ UNCHANGED <<sockets, dev, rcuReaders, os, lastBind, faults>>
    /\ UNCHANGED notSock

\* Line 193.
SendAsyncSent(t) ==
    /\ pc[t] = "sa_sent"
    /\ Goto(t, "sa_unlock", [loc[t] EXCEPT !.Status = STATUS_SUCCESS])
    /\ UNCHANGED <<sockets, dev, rcuReaders, os, lastBind, faults>>
    /\ UNCHANGED notSock

\* Lines 195-196: the read section ends (no RcuSynchronize waits for it any
\* longer) and Status is returned.
SendAsyncRcuReadUnlock(t) ==
    /\ pc[t] = "sa_unlock"
    /\ rcuReaders' = RcuReadUnlock(rcuReaders, t)
    /\ pc' = [pc EXCEPT ![t] = Head(loc[t].stack)]
    /\ loc' = [u \in SockThreads |->
                  IF u = t THEN [loc[t] EXCEPT !.stack = Tail(@)]
                  ELSE [loc[u] EXCEPT !.wait = RcuReadUnlock(@, t)]]
    /\ UNCHANGED <<sockets, dev, os, lastBind, faults>>
    /\ UNCHANGED notSock

SendAsync(t) ==
    \/ SendAsyncRcuReadLock(t)
    \/ SendAsyncDereference(t)
    \/ SendAsyncDispatch(t)
    \/ SendAsyncSent(t)
    \/ SendAsyncRcuReadUnlock(t)

(***************************************************************************)
(* SocketEndpointFromNbl (lines 476-505) and FindInCmsgHdr (lines 461-474). *)
(* The control information of a datagram is a sequence of headers.         *)
(***************************************************************************)
\* No header (NULL).
NoCmsg == [cmsg_level |-> "", cmsg_type |-> "", addr |-> 0, ifindex |-> 0]

RECURSIVE FindInCmsgHdr(_, _, _)
FindInCmsgHdr(ControlInfo, Level, Type) ==
    IF ControlInfo = <<>> THEN NoCmsg
    ELSE IF Head(ControlInfo).cmsg_level = Level /\ Head(ControlInfo).cmsg_type = Type
         THEN Head(ControlInfo)
         ELSE FindInCmsgHdr(Tail(ControlInfo), Level, Type)

\* Lines 488 and 497 with the generation of the other family.
SocketEndpointFromNblCrossed(Data) ==
    LET Pktinfo4 == FindInCmsgHdr(Data.ControlInfo, "IPPROTO_IP", "IP_PKTINFO")
        Pktinfo6 == FindInCmsgHdr(Data.ControlInfo, "IPPROTO_IPV6", "IPV6_PKTINFO")
    IN IF Data.family = AF_INET /\ Pktinfo4 # NoCmsg
          THEN [Status |-> STATUS_SUCCESS,
                Endpoint |-> [NoEndpoint EXCEPT !.family = AF_INET,
                                                !.addr = Data.addr,
                                                !.src = Pktinfo4.addr,
                                                !.ifindex = Pktinfo4.ifindex,
                                                !.RoutingGeneration = RoutingGenerationV6,
                                                !.storedAt = routes.delivered[AF_INET]]]
       ELSE IF Data.family = AF_INET6 /\ Pktinfo6 # NoCmsg
          THEN [Status |-> STATUS_SUCCESS,
                Endpoint |-> [NoEndpoint EXCEPT !.family = AF_INET6,
                                                !.addr = Data.addr,
                                                !.src = Pktinfo6.addr,
                                                !.ifindex = Pktinfo6.ifindex,
                                                !.RoutingGeneration = RoutingGenerationV4,
                                                !.storedAt = routes.delivered[AF_INET6]]]
       ELSE [Status |-> STATUS_INVALID_ADDRESS, Endpoint |-> NoEndpoint]

\* The status and the endpoint SocketEndpointFromNbl leaves in *Endpoint.
SocketEndpointFromNbl(Data) ==
    LET Pktinfo4 == FindInCmsgHdr(Data.ControlInfo, "IPPROTO_IP", "IP_PKTINFO")
        Pktinfo6 == FindInCmsgHdr(Data.ControlInfo, "IPPROTO_IPV6", "IPV6_PKTINFO")
    IN IF Data.family = AF_INET /\ Pktinfo4 # NoCmsg
          THEN [Status |-> STATUS_SUCCESS,
                Endpoint |-> [NoEndpoint EXCEPT !.family = AF_INET,
                                                !.addr = Data.addr,
                                                !.src = Pktinfo4.addr,
                                                !.ifindex = Pktinfo4.ifindex,
                                                !.RoutingGeneration = RoutingGenerationV4,
                                                !.storedAt = routes.delivered[AF_INET]]]
       ELSE IF Data.family = AF_INET6 /\ Pktinfo6 # NoCmsg
          THEN [Status |-> STATUS_SUCCESS,
                Endpoint |-> [NoEndpoint EXCEPT !.family = AF_INET6,
                                                !.addr = Data.addr,
                                                !.src = Pktinfo6.addr,
                                                !.ifindex = Pktinfo6.ifindex,
                                                !.RoutingGeneration = RoutingGenerationV6,
                                                !.storedAt = routes.delivered[AF_INET6]]]
       ELSE [Status |-> STATUS_INVALID_ADDRESS, Endpoint |-> NoEndpoint]

(***************************************************************************)
(* SocketSendBufferAsReplyToNbl (lines 427-457).  InNbl's datagram is      *)
(* loc[t].Data.                                                            *)
(***************************************************************************)
\* cleanupMdl and cleanupCtx (lines 452-456).
CleanupMdl(l) == [l EXCEPT !.mdlFrees = @ + 1, !.ctxFrees = @ + 1]

CleanupCtx(l) == [l EXCEPT !.ctxFrees = @ + 1]

\* Lines 432-434.
SendReplyAllocCtx(t) ==
    /\ pc[t] = "SocketSendBufferAsReplyToNbl"
    /\ \/ Goto(t, "rp_mdl", [loc[t] EXCEPT !.ctxTaken = 1])
       \/ Return(t, [loc[t] EXCEPT !.Status = STATUS_INSUFFICIENT_RESOURCES])
    /\ UNCHANGED <<sockets, dev, rcuReaders, os, lastBind, faults>>
    /\ UNCHANGED notSock

\* Lines 435-444.
SendReplyAllocMdl(t) ==
    /\ pc[t] = "rp_mdl"
    /\ \/ Goto(t, "rp_endpoint", [loc[t] EXCEPT !.mdlTaken = 1, !.IsNbl = FALSE])
       \/ Return(t, CleanupCtx([loc[t] EXCEPT !.IsNbl = FALSE,
                                              !.Status = STATUS_INSUFFICIENT_RESOURCES]))
    /\ UNCHANGED <<sockets, dev, rcuReaders, os, lastBind, faults>>
    /\ UNCHANGED notSock

\* Lines 445-448.
SendReplyEndpoint(t) ==
    /\ pc[t] = "rp_endpoint"
    /\ LET r == SocketEndpointFromNbl(loc[t].Data)
           l == [loc[t] EXCEPT !.Status = r.Status, !.Endpoint = r.Endpoint]
       IN IF NT_SUCCESS(r.Status)
             THEN Call(t, "SendAsync", "rp_sent", l)
             ELSE Return(t, CleanupMdl(l))
    /\ UNCHANGED <<sockets, dev, rcuReaders, os, lastBind, faults>>
    /\ UNCHANGED notSock

\* Lines 449-456.
SendReplySent(t) ==
    /\ pc[t] = "rp_sent"
    /\ Return(t, IF NT_SUCCESS(loc[t].Status) THEN loc[t] ELSE CleanupMdl(loc[t]))
    /\ UNCHANGED <<sockets, dev, rcuReaders, os, lastBind, faults>>
    /\ UNCHANGED notSock

SocketSendBufferAsReplyToNbl(t) ==
    \/ SendReplyAllocCtx(t)
    \/ SendReplyAllocMdl(t)
    \/ SendReplyEndpoint(t)
    \/ SendReplySent(t)

(***************************************************************************)
(* The routing state of the machine, as the resolver reads it through      *)
(* GetIpForwardTable2, GetIfEntry2, GetIpInterfaceEntry and GetBestRoute2.  *)
(* Addresses are scaled down: an IPv4 address has AddrBits bits (32 in the *)
(* program), an IPv6 address V6Words words of WordBits bits (4 of 32).     *)
(***************************************************************************)
AddrBits == 2
WordBits == 2
V6Words == 2

\* Value & (~0U << Shift).
MaskHigh(Value, Shift) == Value - (Value % (2 ^ Shift))

\* Word i of an IPv6 address, ((UINT32 *)Addr)[i].
Word(Addr, i) == (Addr \div (2 ^ (WordBits * (V6Words - 1 - i)))) % (2 ^ WordBits)

\* Lines 199-204.
CidrMaskMatchV4(Addr, Prefix) ==
    \/ Prefix.PrefixLength = 0
    \/ MaskHigh(Addr, AddrBits - Prefix.PrefixLength) = Prefix.Prefix

\* Lines 206-219.
CidrMaskMatchV6(Addr, Prefix) ==
    IF Prefix.PrefixLength = 0 THEN TRUE
    ELSE LET WholeParts == Prefix.PrefixLength \div WordBits
             LeftoverBits == Prefix.PrefixLength % WordBits
         IN IF \E i \in 0..WholeParts - 1 : Word(Prefix.Prefix, i) # Word(Addr, i)
               THEN FALSE
            ELSE IF WholeParts = V6Words \/ LeftoverBits = 0
               THEN TRUE
            ELSE MaskHigh(Word(Addr, WholeParts), WordBits - LeftoverBits)
                     = Word(Prefix.Prefix, WholeParts)

\* Lines 266-271: the match of the endpoint's family is applied to the
\* address and the prefix of cidr.
CidrMaskMatch ==
    /\ ~cidr.matched
    /\ cidr' = [cidr EXCEPT !.matched = TRUE,
                            !.Match = IF cidr.family = AF_INET
                                         THEN CidrMaskMatchV4(cidr.Addr, cidr.Prefix)
                                         ELSE CidrMaskMatchV6(cidr.Addr, cidr.Prefix)]
    /\ UNCHANGED <<pc, loc, peer, routes, RoutingGenerationV4, RoutingGenerationV6>>
    /\ UNCHANGED <<wskVars, recvVars, sockets, dev, rcuReaders, os, lastBind, faults,
                   NoWskSendMessages>>

\* The interface of the tunnel device itself (Peer->Device->InterfaceLuid).
OwnLuid == 4

\* The interfaces, by LUID (which is also the interface index): two that
\* are up, one that is down, and the tunnel's own.
IfRows == <<[OperStatus |-> "IfOperStatusUp", Metric |-> 100],
            [OperStatus |-> "IfOperStatusUp", Metric |-> 10],
            [OperStatus |-> "IfOperStatusDown", Metric |-> 10],
            [OperStatus |-> "IfOperStatusUp", Metric |-> 5]>>

GetIfEntry2(Luid) == [Status |-> STATUS_SUCCESS, OperStatus |-> IfRows[Luid].OperStatus]

\* The interface's row for a family; there is none for a family that is
\* neither AF_INET nor AF_INET6.
GetIpInterfaceEntry(Family, Luid) ==
    IF Family \in {AF_INET, AF_INET6}
       THEN [Status |-> STATUS_SUCCESS, Metric |-> IfRows[Luid].Metric]
       ELSE [Status |-> STATUS_INVALID_PARAMETER, Metric |-> 0]

\* The source address GetBestRoute2 gives for an interface.
IfAddr(Index) == 4 + Index

\* A MIB_IPFORWARD_ROW2.
Row(Family, PrefixLength, Prefix, Metric, If) ==
    [Family |-> Family,
     DestinationPrefix |-> [PrefixLength |-> PrefixLength, Prefix |-> Prefix],
     Metric |-> Metric, InterfaceIndex |-> If, InterfaceLuid |-> If]

\* The IPv6 rows of the forwarding table.
RowsV6 == <<Row(AF_INET6, 0, 0, 20, 1), Row(AF_INET6, 2, 12, 5, 2), Row(AF_INET6, 3, 6, 1, 2)>>

\* The forwarding tables the machine may have; they differ in their IPv4
\* rows.  In the first the addresses of the model take different routes;
\* in the second all take one route; in the third there are routes through
\* the tunnel itself and through the interface that is down only.
RouteTables ==
    <<<<Row(AF_INET, 0, 0, 20, 1), Row(AF_INET, 1, 2, 5, 2),
        Row(AF_INET, 2, 3, 1, OwnLuid), Row(AF_INET, 2, 1, 1, 3)>> \o RowsV6,
      <<Row(AF_INET, 0, 0, 5, 2)>> \o RowsV6,
      <<Row(AF_INET, 0, 0, 1, OwnLuid), Row(AF_INET, 0, 0, 1, 3)>> \o RowsV6>>

\* The forwarding table is the first one, with no notification due and
\* none delivered.
NoRoutes == [table |-> RouteTables[1], changes |-> 0,
             notify |-> [f \in {AF_INET, AF_INET6} |-> 0],
             delivered |-> [f \in {AF_INET, AF_INET6} |-> 0]]

\* The sending part when nothing of it runs.
PeerOff ==
    /\ NoWskSendMessages = FALSE
    /\ RoutingGenerationV4 = 1
    /\ RoutingGenerationV6 = 1
    /\ peer = NoPeer
    /\ routes = NoRoutes
    /\ cidr = NoCidr

\* The rows GetIpForwardTable2 returns for a family (all rows for AF_UNSPEC).
GetIpForwardTable2(Family) ==
    SelectSeq(routes.table, LAMBDA r : Family = 0 \/ r.Family = Family)

\* Lines 262-285: one row of the scan, with a lower prefix length than the
\* best so far never skipped.
ScanRowAnyLength(Entry, Addr, Best) ==
    LET Prefix == Entry.DestinationPrefix
        Interface == GetIfEntry2(Entry.InterfaceLuid)
        IpInterface == GetIpInterfaceEntry(Addr.family, Entry.InterfaceLuid)
        Metric == (Entry.Metric + IpInterface.Metric) % (MaxULong + 1)
        continue ==
            \/ Entry.InterfaceLuid = OwnLuid
            \/ Addr.family = AF_INET /\ ~CidrMaskMatchV4(Addr.addr, Prefix)
            \/ Addr.family = AF_INET6 /\ ~CidrMaskMatchV6(Addr.addr, Prefix)
            \/ ~NT_SUCCESS(Interface.Status)
            \/ Interface.OperStatus # "IfOperStatusUp"
            \/ ~NT_SUCCESS(IpInterface.Status)
            \/ Prefix.PrefixLength = Best.BestCidr /\ Metric > Best.BestMetric
    IN IF continue THEN Best
       ELSE [BestIndex |-> Entry.InterfaceIndex,
             BestCidr |-> Prefix.PrefixLength,
             BestMetric |-> Metric,
             BestLuid |-> Entry.InterfaceLuid]

\* Lines 262-285: one row of the scan.  Metric is a ULONG: the sum of the
\* two metrics wraps.
ScanRow(Entry, Addr, Best) ==
    LET Prefix == Entry.DestinationPrefix
        Interface == GetIfEntry2(Entry.InterfaceLuid)
        IpInterface == GetIpInterfaceEntry(Addr.family, Entry.InterfaceLuid)
        Metric == (Entry.Metric + IpInterface.Metric) % (MaxULong + 1)
        continue ==
            \/ Entry.InterfaceLuid = OwnLuid
            \/ Prefix.PrefixLength < Best.BestCidr
            \/ Addr.family = AF_INET /\ ~CidrMaskMatchV4(Addr.addr, Prefix)
            \/ Addr.family = AF_INET6 /\ ~CidrMaskMatchV6(Addr.addr, Prefix)
            \/ ~NT_SUCCESS(Interface.Status)
            \/ Interface.OperStatus # "IfOperStatusUp"
            \/ ~NT_SUCCESS(IpInterface.Status)
            \/ Prefix.PrefixLength = Best.BestCidr /\ Metric > Best.BestMetric
    IN IF continue THEN Best
       ELSE [BestIndex |-> Entry.InterfaceIndex,
             BestCidr |-> Prefix.PrefixLength,
             BestMetric |-> Metric,
             BestLuid |-> Entry.InterfaceLuid]

\* Lines 260-286: the scan of the table for the remote address Addr.
RECURSIVE ScanTable(_, _, _)
ScanTable(Table, Addr, Best) ==
    IF Table = <<>> THEN Best
    ELSE ScanTable(Tail(Table), Addr, ScanRow(Head(Table), Addr, Best))

(***************************************************************************)
(* The peer's endpoint and its lock.  Reads of Peer->Endpoint made without *)
(* the lock while SocketSetPeerEndpoint is writing it race with the write. *)
(***************************************************************************)
\* The remote addresses of the model, and no address.
AddrChoices ==
    {[family |-> AF_INET, addr |-> 1], [family |-> AF_INET, addr |-> 3],
     [family |-> AF_INET6, addr |-> 13], [family |-> 0, addr |-> 0]}

AddrOf(Endpoint) == [family |-> Endpoint.family, addr |-> Endpoint.addr]

\* SocketSetPeerEndpoint is between its acquisition and its release of the
\* lock, writing an address (lines 545 and 553).
Writing ==
    /\ peer.writer # "free"
    /\ pc[peer.writer] = "sp_write"
    /\ loc[peer.writer].Endpoint.family \in {AF_INET, AF_INET6}

\* What a read of Endpoint->Addr without the lock may see: the address of
\* the endpoint, or during a write any mix of the old and the new one.
UnlockedAddr ==
    IF Writing
       THEN {[family |-> f, addr |-> a] :
                f \in {peer.Endpoint.family, loc[peer.writer].Endpoint.family},
                a \in {peer.Endpoint.addr, loc[peer.writer].Endpoint.addr}}
       ELSE {AddrOf(peer.Endpoint)}

\* ExAcquireSpinLockShared and ExAcquireSpinLockExclusive can be taken.
CanShare == peer.writer = "free"

CanExclude == peer.writer = "free" /\ peer.readers = {}

\* Lines 239-244: the cached source is taken as valid.
FastPath(Endpoint) ==
    \/ /\ Endpoint.family = AF_INET
       /\ Endpoint.RoutingGeneration = RoutingGenerationV4
       /\ Endpoint.ifindex # 0
    \/ /\ Endpoint.family = AF_INET6
       /\ Endpoint.RoutingGeneration = RoutingGenerationV6
       /\ Endpoint.ifindex # 0

\* Lines 294 and 324: the endpoint was updated since the snapshot.
MovedNever(Current, Snapshot) == FALSE

\* A mutation of Moved: the endpoint is always taken as updated.
MovedAlways(Current, Snapshot) == TRUE

Moved(Current, Snapshot) == Current # Snapshot

(***************************************************************************)
(* SocketResolvePeerEndpointSrc (lines 221-330).                           *)
(***************************************************************************)
\* The function returns: its locals are gone; the table, if it still has
\* it, stays allocated.
ResolveReturn(t, l) ==
    Return(t, [l EXCEPT !.UpdateGeneration = 0, !.Seen = {}, !.Table = <<>>,
                        !.TableAt = -1, !.Best = NoBest, !.SrcAddr = 0])

\* Lines 228-229.
ResolveEnter(t) ==
    /\ pc[t] = "SocketResolvePeerEndpointSrc"
    /\ Goto(t, "rs_retry", [loc[t] EXCEPT !.Status = STATUS_INVALID_PARAMETER])
    /\ UNCHANGED <<peer, routes, RoutingGenerationV4, RoutingGenerationV6>>
    /\ UNCHANGED notPeer

\* Lines 236-246: under the shared lock, the snapshot of UpdateGeneration and
\* the fast path, which returns with the lock held.
ResolveRetry(t) ==
    /\ pc[t] = "rs_retry"
    /\ CanShare
    /\ LET l == [loc[t] EXCEPT !.UpdateGeneration = peer.Endpoint.UpdateGeneration,
                               !.Seen = {}, !.Table = <<>>, !.TableAt = -1,
                               !.Best = NoBest, !.SrcAddr = 0]
       IN IF FastPath(peer.Endpoint)
             THEN /\ peer' = [peer EXCEPT !.readers = @ \cup {t}]
                  /\ ResolveReturn(t, [l EXCEPT !.Status = STATUS_SUCCESS])
             ELSE /\ peer' = peer
                  /\ Goto(t, "rs_table", l)
    /\ UNCHANGED <<routes, RoutingGenerationV4, RoutingGenerationV6>>
    /\ UNCHANGED notPeer

\* Lines 250-252: the table of the endpoint's family, read without the lock.
\* The query fails when it cannot allocate and when there is no row.
ResolveTable(t) ==
    /\ pc[t] = "rs_table"
    /\ \E Addr \in UnlockedAddr :
          LET Table == GetIpForwardTable2(Addr.family)
              l == [loc[t] EXCEPT !.Seen = @ \cup {Addr}]
          IN \/ ResolveReturn(t, [l EXCEPT !.Status = STATUS_INSUFFICIENT_RESOURCES])
             \/ IF Table = <<>>
                   THEN ResolveReturn(t, [l EXCEPT !.Status = STATUS_NOT_FOUND])
                   ELSE Goto(t, "rs_scan",
                             [l EXCEPT !.Status = STATUS_SUCCESS,
                                       !.Table = Table,
                                       !.TableAt = IF Addr.family \in {AF_INET, AF_INET6}
                                                      THEN routes.delivered[Addr.family]
                                                      ELSE -1,
                                       !.TableHeld = TRUE])
    /\ UNCHANGED <<peer, routes, RoutingGenerationV4, RoutingGenerationV6>>
    /\ UNCHANGED notPeer

\* The scan shifts by a negative count (line 203) when the address read is
\* an IPv4 one and the table, fetched for what the family was before, has a
\* prefix longer than an IPv4 address: the behaviour is undefined.
ShiftUndefined(Table, Addr) ==
    /\ Addr.family = AF_INET
    /\ \E i \in 1..Len(Table) : Table[i].DestinationPrefix.PrefixLength > AddrBits

\* What the scan may leave then: no route, or any row of the table.
AnyBest(Table) ==
    {NoBest} \cup {[BestIndex |-> Table[i].InterfaceIndex,
                    BestCidr |-> Table[i].DestinationPrefix.PrefixLength,
                    BestMetric |-> Table[i].Metric,
                    BestLuid |-> Table[i].InterfaceLuid] : i \in 1..Len(Table)}

\* Lines 253-287: the scratch buffer and the scan.  When the buffer cannot
\* be allocated the function returns with the table still allocated.
ResolveScan(t) ==
    /\ pc[t] = "rs_scan"
    /\ \/ ResolveReturn(t, [loc[t] EXCEPT !.Status = STATUS_INSUFFICIENT_RESOURCES])
       \/ \E Addr \in UnlockedAddr :
             \E Best \in IF ShiftUndefined(loc[t].Table, Addr)
                             THEN AnyBest(loc[t].Table)
                             ELSE {ScanTable(loc[t].Table, Addr, NoBest)} :
                Goto(t, "rs_best", [loc[t] EXCEPT !.Seen = @ \cup {Addr}, !.Best = Best])
    /\ UNCHANGED <<peer, routes, RoutingGenerationV4, RoutingGenerationV6>>
    /\ UNCHANGED notPeer

\* Lines 288-292: GetBestRoute2 for the interface found, and FreeMibTable.
ResolveBest(t) ==
    /\ pc[t] = "rs_best"
    /\ LET l == [loc[t] EXCEPT !.TableHeld = FALSE]
       IN IF Len(l.Table) # 0 /\ l.Best.BestIndex # 0
             THEN \E Addr \in UnlockedAddr :
                     \/ ResolveReturn(t, [l EXCEPT !.Seen = @ \cup {Addr},
                                            !.Status = STATUS_NOT_FOUND])
                     \/ Goto(t, "rs_lock", [l EXCEPT !.Seen = @ \cup {Addr},
                                                     !.Status = STATUS_SUCCESS,
                                                     !.SrcAddr = IfAddr(l.Best.BestIndex)])
             ELSE Goto(t, "rs_lock", l)
    /\ UNCHANGED <<peer, routes, RoutingGenerationV4, RoutingGenerationV6>>
    /\ UNCHANGED notPeer

\* Line 293.
ResolveLock(t) ==
    /\ pc[t] = "rs_lock"
    /\ CanExclude
    /\ peer' = [peer EXCEPT !.writer = t]
    /\ Goto(t, "rs_write", loc[t])
    /\ UNCHANGED <<routes, RoutingGenerationV4, RoutingGenerationV6>>
    /\ UNCHANGED notPeer

\* Lines 294-322: if the endpoint was updated since the snapshot, nothing is
\* written and the function starts again; otherwise the source found is
\* written with the routing generation of now.
ResolveWrite(t) ==
    /\ pc[t] = "rs_write"
    /\ LET l == loc[t]
           Endpoint == peer.Endpoint
           Generation == IF Endpoint.family = AF_INET THEN RoutingGenerationV4
                         ELSE RoutingGenerationV6
           BestIndex == IF Endpoint.family \in {AF_INET, AF_INET6}
                           THEN l.Best.BestIndex ELSE 0
           Written == IF Endpoint.family \in {AF_INET, AF_INET6}
                         THEN [Endpoint EXCEPT !.RoutingGeneration = Generation,
                                               !.storedAt = routes.delivered[Endpoint.family],
                                               !.src = l.SrcAddr,
                                               !.ifindex = BestIndex,
                                               !.UpdateGeneration = @ + 1]
                         ELSE [Endpoint EXCEPT !.UpdateGeneration = @ + 1]
       IN IF Moved(Endpoint.UpdateGeneration, l.UpdateGeneration)
             THEN /\ peer' = [peer EXCEPT !.writer = "free"]
                  /\ Goto(t, "rs_retry", l)
             ELSE /\ peer' = [peer EXCEPT
                                 !.writer = "free",
                                 !.Endpoint = Written,
                                 !.srcBy = IF Endpoint.family \in {AF_INET, AF_INET6}
                                              THEN "resolver" ELSE @,
                                 !.srcSeen = IF Endpoint.family \in {AF_INET, AF_INET6}
                                                THEN l.Seen ELSE @]
                  /\ IF BestIndex = 0
                        THEN ResolveReturn(t, [l EXCEPT !.Status = STATUS_BAD_NETWORK_PATH,
                                                 !.UpdateGeneration = @ + 1])
                        ELSE Goto(t, "rs_recheck", [l EXCEPT !.UpdateGeneration = @ + 1])
    /\ UNCHANGED <<routes, RoutingGenerationV4, RoutingGenerationV6>>
    /\ UNCHANGED notPeer

\* A mutation of ResolveRecheck: UpdateGeneration is not compared again.
ResolveRecheckNothing(t) ==
    /\ pc[t] = "rs_recheck"
    /\ CanShare
    /\ peer' = [peer EXCEPT !.readers = @ \cup {t}]
    /\ ResolveReturn(t, [loc[t] EXCEPT !.Status = STATUS_SUCCESS])
    /\ UNCHANGED <<routes, RoutingGenerationV4, RoutingGenerationV6>>
    /\ UNCHANGED notPeer

\* Lines 323-329: under the shared lock again; success returns with it held.
ResolveRecheck(t) ==
    /\ pc[t] = "rs_recheck"
    /\ CanShare
    /\ IF Moved(peer.Endpoint.UpdateGeneration, loc[t].UpdateGeneration)
          THEN /\ peer' = peer
               /\ Goto(t, "rs_retry", loc[t])
          ELSE /\ peer' = [peer EXCEPT !.readers = @ \cup {t}]
               /\ ResolveReturn(t, [loc[t] EXCEPT !.Status = STATUS_SUCCESS])
    /\ UNCHANGED <<routes, RoutingGenerationV4, RoutingGenerationV6>>
    /\ UNCHANGED notPeer

SocketResolvePeerEndpointSrc(t) ==
    \/ ResolveEnter(t)
    \/ ResolveRetry(t)
    \/ ResolveTable(t)
    \/ ResolveScan(t)
    \/ ResolveBest(t)
    \/ ResolveLock(t)
    \/ ResolveWrite(t)
    \/ ResolveRecheck(t)

(***************************************************************************)
(* PolyfilledWskSendMessages and PolyfilledSendComplete (lines 86-140), of *)
(* the Windows 7 build.  The buffers of the list are 1..loc[t].Packets;    *)
(* RefCount and the individual IRPs live until the last completion.        *)
(***************************************************************************)
\* Lines 115-118: without RefCount the function returns at once; it has not
\* touched the IRP it was given.
PolyfillAlloc(t) ==
    /\ pc[t] = "PolyfilledWskSendMessages"
    /\ \/ Return(t, loc[t])
       \/ Goto(t, "pf_loop", [loc[t] EXCEPT !.RefCount = 1, !.Buf = 1, !.Irp = "polyfilled"])
    /\ UNCHANGED <<peer, routes, RoutingGenerationV4, RoutingGenerationV6>>
    /\ UNCHANGED notPeer

\* Lines 119-131: one buffer of the list: its context cannot be allocated
\* and it is passed over, or it is sent with an IRP of its own.
PolyfillSend(t) ==
    /\ pc[t] = "pf_loop"
    /\ LET l == loc[t]
       IN IF l.Buf > l.Packets
             THEN Goto(t, "pf_done", l)
             ELSE \/ Goto(t, "pf_loop", [l EXCEPT !.Buf = @ + 1])
                  \/ Goto(t, "pf_loop", [l EXCEPT !.Buf = @ + 1, !.RefCount = @ + 1,
                                                  !.subIrps = @ + 1])
    /\ UNCHANGED <<peer, routes, RoutingGenerationV4, RoutingGenerationV6>>
    /\ UNCHANGED notPeer

\* Lines 132-139: the reference of the loop is dropped; the last reference
\* runs the completion routine of the IRP given.
PolyfillDone(t) ==
    /\ pc[t] = "pf_done"
    /\ LET l == [loc[t] EXCEPT !.RefCount = @ - 1]
       IN Return(t, IF l.RefCount = 0 THEN Completed(l) ELSE l)
    /\ UNCHANGED <<peer, routes, RoutingGenerationV4, RoutingGenerationV6>>
    /\ UNCHANGED notPeer

PolyfilledWskSendMessages(t) ==
    \/ PolyfillAlloc(t)
    \/ PolyfillSend(t)
    \/ PolyfillDone(t)

\* Lines 89-102: the kernel completes one of the individual IRPs.
PolyfilledSendComplete(t) ==
    /\ loc[t].subIrps > 0
    /\ LET l == [loc[t] EXCEPT !.subIrps = @ - 1, !.RefCount = @ - 1]
       IN loc' = [loc EXCEPT ![t] = IF l.RefCount = 0 THEN Completed(l) ELSE l]
    /\ UNCHANGED <<pc, peer, routes, RoutingGenerationV4, RoutingGenerationV6>>
    /\ UNCHANGED notPeer

(***************************************************************************)
(* SocketSendNblsToPeer (lines 335-387).  The chain First is a sequence of *)
(* NET_BUFFER_LISTs, each a sequence of the data lengths of its            *)
(* NET_BUFFERs; *AllKeepalive is loc[t].AllKeepalive.  The byte and packet *)
(* counters of lines 376-379 are not part of the model.                    *)
(***************************************************************************)
\* The length of a data message of PlainLen bytes (messages.h): the header,
\* the bytes, and the authentication tag.
MessageDataLen(PlainLen) == 16 + PlainLen + 16

\* Line 369: the buffer is not of the length of a keepalive.
NotKeepaliveNever(Length) == FALSE

NotKeepalive(Length) == Length # MessageDataLen(0)

\* Lines 353-372: what the loops leave in *AllKeepalive and in Packets.
RECURSIVE WalkChain(_, _)
WalkChain(Nbls, Acc) ==
    IF Nbls = <<>> THEN Acc
    ELSE LET Nbl == Head(Nbls)
         IN WalkChain(Tail(Nbls),
                      [AllKeepalive |-> IF \E i \in 1..Len(Nbl) : NotKeepalive(Nbl[i])
                                           THEN FALSE ELSE Acc.AllKeepalive,
                       Packets |-> Acc.Packets + Len(Nbl)])

\* cleanupCtx and cleanupNbls (lines 382-386).
CleanupNbls(l) == [l EXCEPT !.nblFrees = @ + 1]

CleanupCtxNbls(l) == [l EXCEPT !.ctxFrees = @ + 1, !.nblFrees = @ + 1]

\* Lines 339-346.
SendNblsAllocCtx(t) ==
    /\ pc[t] = "SocketSendNblsToPeer"
    /\ LET l == loc[t]
       IN IF l.First = <<>>
             THEN Return(t, [l EXCEPT !.Status = STATUS_ALREADY_COMPLETE])
             ELSE \/ Return(t, CleanupNbls([l EXCEPT !.Status = STATUS_INSUFFICIENT_RESOURCES]))
                  \/ Call(t, "SocketResolvePeerEndpointSrc", "sn_resolved",
                          [l EXCEPT !.ctxTaken = 1])
    /\ UNCHANGED <<peer, routes, RoutingGenerationV4, RoutingGenerationV6>>
    /\ UNCHANGED notPeer

\* Lines 347-373: the endpoint is copied under the lock the resolver left
\* held, the lock is released, and the chain is walked.
SendNblsResolved(t) ==
    /\ pc[t] = "sn_resolved"
    /\ LET l == loc[t]
           Walk == WalkChain(l.First, [AllKeepalive |-> TRUE, Packets |-> 0])
       IN IF ~NT_SUCCESS(l.Status)
             THEN /\ peer' = peer
                  /\ Return(t, CleanupCtxNbls(l))
             ELSE /\ peer' = [peer EXCEPT !.readers = @ \ {t}]
                  /\ Call(t, "SendAsync", "sn_sent",
                          [l EXCEPT !.Endpoint = peer.Endpoint, !.IsNbl = TRUE,
                                    !.AllKeepalive = Walk.AllKeepalive,
                                    !.Packets = Walk.Packets])
    /\ UNCHANGED <<routes, RoutingGenerationV4, RoutingGenerationV6>>
    /\ UNCHANGED notPeer

\* Lines 374-386.
SendNblsSent(t) ==
    /\ pc[t] = "sn_sent"
    /\ Return(t, IF NT_SUCCESS(loc[t].Status) THEN loc[t] ELSE CleanupCtxNbls(loc[t]))
    /\ UNCHANGED <<peer, routes, RoutingGenerationV4, RoutingGenerationV6>>
    /\ UNCHANGED notPeer

SocketSendNblsToPeer(t) ==
    \/ SendNblsAllocCtx(t)
    \/ SendNblsResolved(t)
    \/ SendNblsSent(t)

(***************************************************************************)
(* SocketSendBufferToPeer (lines 391-425).                                 *)
(***************************************************************************)
\* Lines 396-410.
SendBufferAlloc(t) ==
    /\ pc[t] = "SocketSendBufferToPeer"
    /\ LET l == loc[t]
       IN \/ Return(t, [l EXCEPT !.Status = STATUS_INSUFFICIENT_RESOURCES])
          \/ Return(t, CleanupCtx([l EXCEPT !.ctxTaken = 1, !.IsNbl = FALSE,
                                            !.Status = STATUS_INSUFFICIENT_RESOURCES]))
          \/ Call(t, "SocketResolvePeerEndpointSrc", "sb_resolved",
                  [l EXCEPT !.ctxTaken = 1, !.mdlTaken = 1, !.IsNbl = FALSE])
    /\ UNCHANGED <<peer, routes, RoutingGenerationV4, RoutingGenerationV6>>
    /\ UNCHANGED notPeer

\* Lines 411-415 without line 414: the lock is not released.
SendBufferResolvedKeepsLock(t) ==
    /\ pc[t] = "sb_resolved"
    /\ LET l == loc[t]
       IN IF ~NT_SUCCESS(l.Status)
             THEN /\ peer' = peer
                  /\ Return(t, CleanupMdl(l))
             ELSE /\ peer' = peer
                  /\ Call(t, "SendAsync", "sb_sent", [l EXCEPT !.Endpoint = peer.Endpoint])
    /\ UNCHANGED <<routes, RoutingGenerationV4, RoutingGenerationV6>>
    /\ UNCHANGED notPeer

\* Lines 411-415.
SendBufferResolved(t) ==
    /\ pc[t] = "sb_resolved"
    /\ LET l == loc[t]
       IN IF ~NT_SUCCESS(l.Status)
             THEN /\ peer' = peer
                  /\ Return(t, CleanupMdl(l))
             ELSE /\ peer' = [peer EXCEPT !.readers = @ \ {t}]
                  /\ Call(t, "SendAsync", "sb_sent", [l EXCEPT !.Endpoint = peer.Endpoint])
    /\ UNCHANGED <<routes, RoutingGenerationV4, RoutingGenerationV6>>
    /\ UNCHANGED notPeer

\* Lines 416-424.
SendBufferSent(t) ==
    /\ pc[t] = "sb_sent"
    /\ Return(t, IF NT_SUCCESS(loc[t].Status) THEN loc[t] ELSE CleanupMdl(loc[t]))
    /\ UNCHANGED <<peer, routes, RoutingGenerationV4, RoutingGenerationV6>>
    /\ UNCHANGED notPeer

SocketSendBufferToPeer(t) ==
    \/ SendBufferAlloc(t)
    \/ SendBufferResolved(t)
    \/ SendBufferSent(t)

(***************************************************************************)
(* SocketSetPeerEndpoint (lines 529-567), SocketSetPeerEndpointFromNbl     *)
(* (lines 569-577) and SocketClearPeerEndpointSrc (lines 579-590).         *)
(***************************************************************************)
\* Lines 514-527 with a comparison of RoutingGeneration added.
EndpointEqAndGeneration(A, B) ==
    \/ /\ A.family = AF_INET /\ B.family = AF_INET
       /\ A.addr = B.addr /\ A.src = B.src /\ A.ifindex = B.ifindex
       /\ A.RoutingGeneration = B.RoutingGeneration
    \/ /\ A.family = AF_INET6 /\ B.family = AF_INET6
       /\ A.addr = B.addr /\ A.src = B.src /\ A.ifindex = B.ifindex
       /\ A.RoutingGeneration = B.RoutingGeneration
    \/ A.family = 0 /\ B.family = 0

\* Lines 514-527 (all endpoints of the model have one port and one scope).
EndpointEq(A, B) ==
    \/ /\ A.family = AF_INET /\ B.family = AF_INET
       /\ A.addr = B.addr /\ A.src = B.src /\ A.ifindex = B.ifindex
    \/ /\ A.family = AF_INET6 /\ B.family = AF_INET6
       /\ A.addr = B.addr /\ A.src = B.src /\ A.ifindex = B.ifindex
    \/ A.family = 0 /\ B.family = 0

\* The endpoint the holder of the write lock is about to leave (lines
\* 299-319, 543-564 and 586-588).
WriteDue ==
    LET w == peer.writer
        Old == peer.Endpoint
    IN IF w = "free" THEN Old
       ELSE IF pc[w] = "sp_write" /\ loc[w].Endpoint.family \in {AF_INET, AF_INET6}
          THEN [loc[w].Endpoint EXCEPT !.UpdateGeneration = Old.UpdateGeneration + 1]
       ELSE IF /\ pc[w] = "rs_write" /\ Old.family \in {AF_INET, AF_INET6}
               /\ ~Moved(Old.UpdateGeneration, loc[w].UpdateGeneration)
          THEN [Old EXCEPT !.src = loc[w].SrcAddr, !.ifindex = loc[w].Best.BestIndex,
                           !.UpdateGeneration = @ + 1]
       ELSE IF pc[w] = "cl_write"
          THEN [Old EXCEPT !.src = 0, !.ifindex = 0, !.UpdateGeneration = @ + 1]
       ELSE Old

\* What a read of the fields of Peer->Endpoint that EndpointEq compares may
\* see without the lock: the endpoint, or during a write any mix of the
\* fields before and after it.
UnlockedEndpoint ==
    {[peer.Endpoint EXCEPT !.family = f, !.addr = a, !.src = s, !.ifindex = i] :
        f \in {peer.Endpoint.family, WriteDue.family},
        a \in {peer.Endpoint.addr, WriteDue.addr},
        s \in {peer.Endpoint.src, WriteDue.src},
        i \in {peer.Endpoint.ifindex, WriteDue.ifindex}}

\* Lines 540-541: the comparison without the lock.
SetPeerCheck(t) ==
    /\ pc[t] = "SocketSetPeerEndpoint"
    /\ \E Seen \in UnlockedEndpoint :
          IF EndpointEq(loc[t].Endpoint, Seen)
             THEN Return(t, loc[t])
             ELSE Goto(t, "sp_lock", loc[t])
    /\ UNCHANGED <<peer, routes, RoutingGenerationV4, RoutingGenerationV6>>
    /\ UNCHANGED notPeer

\* Line 542.
SetPeerLock(t) ==
    /\ pc[t] = "sp_lock"
    /\ CanExclude
    /\ peer' = [peer EXCEPT !.writer = t]
    /\ Goto(t, "sp_write", loc[t])
    /\ UNCHANGED <<routes, RoutingGenerationV4, RoutingGenerationV6>>
    /\ UNCHANGED notPeer

\* Lines 543-566 without line 564: UpdateGeneration stays.
SetPeerWriteNoGeneration(t) ==
    /\ pc[t] = "sp_write"
    /\ LET Endpoint == loc[t].Endpoint
       IN IF Endpoint.family \in {AF_INET, AF_INET6}
             THEN peer' = [peer EXCEPT
                              !.writer = "free",
                              !.Endpoint = [@ EXCEPT
                                  !.family = Endpoint.family,
                                  !.addr = Endpoint.addr,
                                  !.src = Endpoint.src,
                                  !.ifindex = Endpoint.ifindex,
                                  !.RoutingGeneration = Endpoint.RoutingGeneration,
                                  !.storedAt = Endpoint.storedAt],
                              !.srcBy = "SocketSetPeerEndpoint",
                              !.srcSeen = {}]
             ELSE peer' = [peer EXCEPT !.writer = "free"]
    /\ Return(t, loc[t])
    /\ UNCHANGED <<routes, RoutingGenerationV4, RoutingGenerationV6>>
    /\ UNCHANGED notPeer

\* Lines 543-566.
SetPeerWrite(t) ==
    /\ pc[t] = "sp_write"
    /\ LET Endpoint == loc[t].Endpoint
       IN IF Endpoint.family \in {AF_INET, AF_INET6}
             THEN peer' = [peer EXCEPT
                              !.writer = "free",
                              !.Endpoint = [@ EXCEPT
                                  !.family = Endpoint.family,
                                  !.addr = Endpoint.addr,
                                  !.src = Endpoint.src,
                                  !.ifindex = Endpoint.ifindex,
                                  !.RoutingGeneration = Endpoint.RoutingGeneration,
                                  !.storedAt = Endpoint.storedAt,
                                  !.UpdateGeneration = @ + 1],
                              !.srcBy = "SocketSetPeerEndpoint",
                              !.srcSeen = {}]
             ELSE peer' = [peer EXCEPT !.writer = "free"]
    /\ Return(t, loc[t])
    /\ UNCHANGED <<routes, RoutingGenerationV4, RoutingGenerationV6>>
    /\ UNCHANGED notPeer

SocketSetPeerEndpoint(t) ==
    \/ SetPeerCheck(t)
    \/ SetPeerLock(t)
    \/ SetPeerWrite(t)

\* Lines 573-576, on the datagram loc[t].Data.
SocketSetPeerEndpointFromNbl(t) ==
    /\ pc[t] = "SocketSetPeerEndpointFromNbl"
    /\ LET r == SocketEndpointFromNbl(loc[t].Data)
       IN IF NT_SUCCESS(r.Status)
             THEN Goto(t, "SocketSetPeerEndpoint", [loc[t] EXCEPT !.Endpoint = r.Endpoint])
             ELSE Return(t, loc[t])
    /\ UNCHANGED <<peer, routes, RoutingGenerationV4, RoutingGenerationV6>>
    /\ UNCHANGED notPeer

\* Line 585.
ClearPeerLock(t) ==
    /\ pc[t] = "SocketClearPeerEndpointSrc"
    /\ CanExclude
    /\ peer' = [peer EXCEPT !.writer = t]
    /\ Goto(t, "cl_write", loc[t])
    /\ UNCHANGED <<routes, RoutingGenerationV4, RoutingGenerationV6>>
    /\ UNCHANGED notPeer

\* Lines 586-589 without lines 586 and 588: the source is kept.
ClearPeerWriteKeepsSrc(t) ==
    /\ pc[t] = "cl_write"
    /\ peer' = [peer EXCEPT !.writer = "free",
                            !.Endpoint = [@ EXCEPT !.UpdateGeneration = @ + 1],
                            !.srcBy = "SocketClearPeerEndpointSrc",
                            !.srcSeen = {}]
    /\ Return(t, loc[t])
    /\ UNCHANGED <<routes, RoutingGenerationV4, RoutingGenerationV6>>
    /\ UNCHANGED notPeer

\* Lines 586-589.
ClearPeerWrite(t) ==
    /\ pc[t] = "cl_write"
    /\ peer' = [peer EXCEPT !.writer = "free",
                            !.Endpoint = [@ EXCEPT !.RoutingGeneration = 0,
                                                   !.storedAt = -1,
                                                   !.UpdateGeneration = @ + 1,
                                                   !.src = 0, !.ifindex = 0],
                            !.srcBy = "SocketClearPeerEndpointSrc",
                            !.srcSeen = {}]
    /\ Return(t, loc[t])
    /\ UNCHANGED <<routes, RoutingGenerationV4, RoutingGenerationV6>>
    /\ UNCHANGED notPeer

SocketClearPeerEndpointSrc(t) ==
    \/ ClearPeerLock(t)
    \/ ClearPeerWrite(t)

\* Line 861 on the generation of the other family.
RouteNotificationCrossed(Family) ==
    /\ routes.notify[Family] > 0
    /\ routes' = [routes EXCEPT !.notify[Family] = @ - 1, !.delivered[Family] = @ + 1]
    /\ RoutingGenerationV4' = IF Family = AF_INET6
                                 THEN (RoutingGenerationV4 + 2) % (MaxULong + 1)
                                 ELSE RoutingGenerationV4
    /\ RoutingGenerationV6' = IF Family = AF_INET
                                 THEN (RoutingGenerationV6 + 2) % (MaxULong + 1)
                                 ELSE RoutingGenerationV6
    /\ UNCHANGED <<pc, loc, peer>>
    /\ UNCHANGED notPeer

(***************************************************************************)
(* RouteNotification (lines 855-862), the callback registered for route    *)
(* changes of a family with the family's generation as its context.        *)
(***************************************************************************)
RouteNotification(Family) ==
    /\ routes.notify[Family] > 0
    /\ routes' = [routes EXCEPT !.notify[Family] = @ - 1, !.delivered[Family] = @ + 1]
    /\ RoutingGenerationV4' = IF Family = AF_INET
                                 THEN (RoutingGenerationV4 + 2) % (MaxULong + 1)
                                 ELSE RoutingGenerationV4
    /\ RoutingGenerationV6' = IF Family = AF_INET6
                                 THEN (RoutingGenerationV6 + 2) % (MaxULong + 1)
                                 ELSE RoutingGenerationV6
    /\ UNCHANGED <<pc, loc, peer>>
    /\ UNCHANGED notPeer

(***************************************************************************)
(* Receive (lines 592-628), the WskReceiveFromEvent callback of a socket.  *)
(* Socket is loc[t].Socket, the indication list loc[t].DataIndication, the *)
(* batch loc[t].First.  The callback can run on a SOCKET that CloseSocket  *)
(* freed without closing its kernel socket; what it reads of the SOCKET is *)
(* then freed memory.                                                      *)
(***************************************************************************)
\* Line 608.
RtlSIZETToULong(Length) ==
    IF Length <= MaxULong THEN STATUS_SUCCESS ELSE STATUS_INTEGER_OVERFLOW

\* The return of Receive: the kernel's call of the callback has ended.
ReceiveReturn(t, Status) ==
    /\ sockets' = [sockets EXCEPT ![loc[t].Socket].callbacks = @ - 1]
    /\ Return(t, [loc[t] EXCEPT !.Status = Status])

\* Lines 597-601: without a list, or without Socket->Sock, the callback
\* returns STATUS_SUCCESS and the datagrams stay the kernel's.  Socket->Sock
\* of a SOCKET that exists is set; read from freed memory it is anything,
\* NULL or a pointer that stops the machine included.
ReceiveEnter(t) ==
    /\ pc[t] = "Receive"
    /\ LET l == loc[t]
           dangling == sockets[l.Socket].obj # "live"
       IN \/ /\ l.DataIndication # <<>>
             /\ Goto(t, "rx_loop", [l EXCEPT !.First = <<>>])
             /\ UNCHANGED sockets
          \/ /\ l.DataIndication = <<>> \/ dangling
             /\ ReceiveReturn(t, STATUS_SUCCESS)
          \/ /\ dangling
             /\ Goto(t, "bugcheck", l)
             /\ UNCHANGED sockets
    /\ UNCHANGED <<dev, datagrams, engine>>
    /\ UNCHANGED notRecv

\* Lines 602-622, one datagram of the list: it is wrapped and takes an
\* in-flight reference, or it is released to the kernel.  The reference is
\* asked for only with a wrapper and a device that is up, and is refused once
\* CloseSocket waits for the rundown; asked of freed memory it is granted or
\* refused.
ReceiveDatagram(t) ==
    /\ pc[t] = "rx_loop"
    /\ loc[t].DataIndication # <<>>
    /\ LET l == loc[t]
           d == Head(l.DataIndication)
           s == l.Socket
           dangling == sockets[s].obj # "live"
           rest == [l EXCEPT !.DataIndication = Tail(@)]
       IN \E Nbl \in BOOLEAN, Acquired \in BOOLEAN :
             /\ ~NT_SUCCESS(RtlSIZETToULong(datagrams[d].Length)) => ~Nbl
             /\ ~dangling => (Acquired = ~sockets[s].rundown)
             /\ IF Nbl /\ dev.IsUp /\ Acquired
                   THEN /\ sockets' = [sockets EXCEPT ![s].ItemsInFlight = @ + 1]
                        /\ datagrams' = [datagrams EXCEPT ![d].InFlight = @ + 1,
                                                          ![d].batched = @ + 1,
                                                          ![d].at = "batch",
                                                          ![d].closing =
                                                              sockets[s].closeCalls > 0]
                        /\ Goto(t, "rx_loop", [rest EXCEPT !.First = Append(@, d)])
                   ELSE /\ datagrams' = [datagrams EXCEPT ![d].Released = @ + 1,
                                                          ![d].skipped = TRUE,
                                                          ![d].at = "released"]
                        /\ Goto(t, "rx_count", [rest EXCEPT !.Discards = dev.ifInDiscards])
                        /\ UNCHANGED sockets
    /\ UNCHANGED <<dev, engine>>
    /\ UNCHANGED notRecv

\* Line 623: ++Wg->Statistics.ifInDiscards stores one more than the value it
\* loaded; the callbacks of the two sockets run at the same time.
ReceiveCount(t) ==
    /\ pc[t] = "rx_count"
    /\ dev' = [dev EXCEPT !.ifInDiscards = loc[t].Discards + 1]
    /\ Goto(t, "rx_loop", loc[t])
    /\ UNCHANGED <<sockets, datagrams, engine>>
    /\ UNCHANGED notRecv

\* Lines 625-627: the batch, if there is one, goes to PacketReceive.
ReceiveDone(t) ==
    /\ pc[t] = "rx_loop"
    /\ loc[t].DataIndication = <<>>
    /\ LET batch == {loc[t].First[i] : i \in 1..Len(loc[t].First)} IN
          /\ engine' = IF loc[t].First # <<>>
                           THEN [held |-> engine.held \cup batch,
                                 PacketReceive |-> engine.PacketReceive + 1]
                           ELSE engine
          /\ datagrams' = [d \in DatagramIds |->
                              IF d \in batch THEN [datagrams[d] EXCEPT !.at = "engine"]
                              ELSE datagrams[d]]
    /\ ReceiveReturn(t, STATUS_PENDING)
    /\ UNCHANGED dev
    /\ UNCHANGED notRecv

Receive(t) ==
    \/ ReceiveEnter(t)
    \/ ReceiveDatagram(t)
    \/ ReceiveCount(t)
    \/ ReceiveDone(t)

(***************************************************************************)
(* The callers of this file in the rest of the driver.                     *)
(***************************************************************************)
\* The lengths of the datagrams: one that fits a ULONG and one that does not.
DatagramLengths == {1500, MaxULong + 1}

\* The kernel indicates the next datagrams, none to MaxList of them, on a
\* socket that is open and bound.
ReceiveCall(t) ==
    /\ pc[t] = "idle"
    /\ \E s \in SockIds, n \in 0..MaxList :
          LET used == Cardinality({d \in DatagramIds : datagrams[d].at # "kernel"})
              list == [i \in 1..n |-> used + i]
          IN /\ sockets[s].Sock = "open" /\ sockets[s].port # 0
             /\ used + n <= MaxDatagrams
             /\ \E Length \in [1..n -> DatagramLengths] :
                   datagrams' = [d \in DatagramIds |->
                                    IF d \in used + 1..used + n
                                       THEN [NoDatagram EXCEPT !.Socket = s,
                                                               !.Length = Length[d - used],
                                                               !.at = "indicated"]
                                       ELSE datagrams[d]]
             /\ sockets' = [sockets EXCEPT ![s].callbacks = @ + 1]
             /\ Call(t, "Receive", "idle",
                     [NoLocals EXCEPT !.Socket = s, !.DataIndication = list])
    /\ UNCHANGED <<dev, engine>>
    /\ UNCHANGED notRecv

\* The engine releases a datagram it was handed: WskRelease on the socket
\* whose pointer Receive left in the datagram, and the in-flight reference.
EngineRelease(d) ==
    /\ d \in engine.held
    /\ engine' = [engine EXCEPT !.held = @ \ {d}]
    /\ datagrams' = [datagrams EXCEPT ![d].Released = @ + 1, ![d].InFlight = @ - 1,
                                      ![d].at = "released"]
    /\ sockets' = [sockets EXCEPT ![datagrams[d].Socket].ItemsInFlight = @ - 1]
    /\ UNCHANGED <<pc, loc, dev>>
    /\ UNCHANGED notRecv

\* The device goes up or down.
SetIsUp ==
    /\ dev' = [dev EXCEPT !.IsUp = ~@]
    /\ UNCHANGED <<pc, loc, sockets, datagrams, engine>>
    /\ UNCHANGED notRecv

\* The packet information a datagram carries for a family.
Pktinfo(Level, Type) == [cmsg_level |-> Level, cmsg_type |-> Type, addr |-> 1, ifindex |-> 1]

\* The datagrams the engine replies to: of either family or of neither,
\* with no control information or with the packet information of both families.
ReplyDatagrams ==
    {[family |-> f, addr |-> 1, ControlInfo |-> c, Length |-> 0] :
        f \in {AF_INET, AF_INET6, 0},
        c \in {<<>>, <<Pktinfo("IPPROTO_IP", "IP_PKTINFO"),
                      Pktinfo("IPPROTO_IPV6", "IPV6_PKTINFO")>>}}

\* The engine replies to a datagram, once the IRP of the thread's last send
\* has completed.
SendReplyCall(t) ==
    /\ pc[t] = "idle"
    /\ loc[t].Irp # "pending"
    /\ \E Data \in ReplyDatagrams :
          Call(t, "SocketSendBufferAsReplyToNbl", "idle", [NoLocals EXCEPT !.Data = Data])
    /\ UNCHANGED <<sockets, dev, rcuReaders, os, lastBind, faults>>
    /\ UNCHANGED notSock

\* The sockets a caller of SocketReinit may pass as new: created and bound,
\* never installed, and passed by no other caller.
Spare(family) ==
    {s \in SockIds :
        /\ sockets[s].obj = "live" /\ sockets[s].Sock = "open"
        /\ sockets[s].family = family
        /\ sockets[s].closeCalls = 0
        /\ s \notin {dev.Sock4, dev.Sock6}
        /\ \A u \in SockThreads :
              pc[u] # "idle" => s \notin {loc[u].New4, loc[u].New6, loc[u].Old4, loc[u].Old6}}

\* SocketReinit is called with the sockets a SocketInit created, which with
\* both transports are an IPv4 and an IPv6 socket on one port, or with none
\* when the device goes down.
SocketReinitCall(t) ==
    /\ pc[t] = "idle"
    /\ \E New4 \in {0} \cup Spare(AF_INET), New6 \in {0} \cup Spare(AF_INET6) :
          /\ (New4 = 0) = (New6 = 0)
          /\ New4 # 0 => sockets[New4].port = sockets[New6].port
          /\ Call(t, "SocketReinit", "idle",
                  [NoLocals EXCEPT !.New4 = New4, !.New6 = New6,
                                   !.Port = IF New4 # 0 THEN sockets[New4].port ELSE 0])
    /\ UNCHANGED <<sockets, dev, rcuReaders, os, lastBind, faults>>
    /\ UNCHANGED notSock

\* Sends each sending thread may make, updates of the endpoint the engine
\* may make, changes of the forwarding table, and packets of a chain.
MaxSends == 2
MaxUpdates == 2
MaxRouteChanges == 1
MaxPackets == 2

\* The lengths of the packets: a keepalive and a message of 16 bytes.
PacketLengths == {MessageDataLen(0), MessageDataLen(16)}

\* The chains the engine sends: of one list or more, of MaxPackets packets
\* at most.
Chains ==
    LET Lists == UNION {[1..k -> PacketLengths] : k \in 1..MaxPackets}
    IN {c \in UNION {[1..k -> Lists] : k \in 1..MaxPackets} :
           WalkChain(c, [AllKeepalive |-> TRUE, Packets |-> 0]).Packets <= MaxPackets}

\* The threads that send in each specification.
SendSenders == {"s1"}
PeerSenders == {"s1"}
\* The thread that updates the endpoint while the resolver runs.
PeerUpdaters == {"e1"}

\* The last send of the thread has been completed or was never issued.
SendOver(t) == loc[t].Irp \notin {"pending", "polyfilled"}

\* The engine sends a chain, or no chain, to the peer.  What the caller's
\* AllKeepalive holds before the call is not known.
SendNblsCall(t) ==
    /\ pc[t] = "idle"
    /\ SendOver(t)
    /\ loc[t].calls < MaxSends
    /\ \E First \in Chains \cup {<<>>}, AllKeepalive \in BOOLEAN :
          Call(t, "SocketSendNblsToPeer", "idle",
               [NoLocals EXCEPT !.First = First, !.Sent = First,
                                !.AllKeepalive = AllKeepalive,
                                !.calls = loc[t].calls + 1])
    /\ UNCHANGED <<peer, routes, RoutingGenerationV4, RoutingGenerationV6>>
    /\ UNCHANGED notPeer

\* The engine sends a handshake message to the peer.
SendBufferCall(t) ==
    /\ pc[t] = "idle"
    /\ SendOver(t)
    /\ loc[t].calls < MaxSends
    /\ Call(t, "SocketSendBufferToPeer", "idle",
            [NoLocals EXCEPT !.calls = loc[t].calls + 1])
    /\ UNCHANGED <<peer, routes, RoutingGenerationV4, RoutingGenerationV6>>
    /\ UNCHANGED notPeer

\* The configuration sets the peer's endpoint: another address, or none,
\* with no source.
SetPeerCall(t) ==
    /\ pc[t] = "idle"
    /\ loc[t].calls < MaxUpdates
    /\ \E Addr \in AddrChoices \ {[family |-> AF_INET, addr |-> 1]} :
          Call(t, "SocketSetPeerEndpoint", "idle",
               [NoLocals EXCEPT !.Endpoint = [NoEndpoint EXCEPT !.family = Addr.family,
                                                                !.addr = Addr.addr],
                                !.calls = loc[t].calls + 1])
    /\ UNCHANGED <<peer, routes, RoutingGenerationV4, RoutingGenerationV6>>
    /\ UNCHANGED notPeer

\* The datagrams of the peer: from its other IPv4 address with the packet
\* information of both families, or with no control information.
PeerDatagrams ==
    {[family |-> AF_INET, addr |-> 3, Length |-> 0,
      ControlInfo |-> <<Pktinfo("IPPROTO_IP", "IP_PKTINFO"),
                        Pktinfo("IPPROTO_IPV6", "IPV6_PKTINFO")>>],
     [family |-> AF_INET, addr |-> 3, Length |-> 0, ControlInfo |-> <<>>]}

\* The engine has authenticated a datagram of the peer.
SetPeerFromNblCall(t) ==
    /\ pc[t] = "idle"
    /\ loc[t].calls < MaxUpdates
    /\ \E Data \in PeerDatagrams :
          Call(t, "SocketSetPeerEndpointFromNbl", "idle",
               [NoLocals EXCEPT !.Data = Data, !.calls = loc[t].calls + 1])
    /\ UNCHANGED <<peer, routes, RoutingGenerationV4, RoutingGenerationV6>>
    /\ UNCHANGED notPeer

\* The configuration moves the peer to its other IPv4 address, with no source.
SetPeerRoamCall(t) ==
    /\ pc[t] = "idle"
    /\ loc[t].calls < MaxUpdates
    /\ Call(t, "SocketSetPeerEndpoint", "idle",
            [NoLocals EXCEPT !.Endpoint = [NoEndpoint EXCEPT !.family = AF_INET, !.addr = 3],
                             !.calls = loc[t].calls + 1])
    /\ UNCHANGED <<peer, routes, RoutingGenerationV4, RoutingGenerationV6>>
    /\ UNCHANGED notPeer

\* The engine sets the peer's endpoint from a datagram it may also reply to.
SetPeerFromReplyCall(t) ==
    /\ pc[t] = "idle"
    /\ loc[t].calls < MaxUpdates
    /\ \E Data \in ReplyDatagrams :
          Call(t, "SocketSetPeerEndpointFromNbl", "idle",
               [NoLocals EXCEPT !.Data = Data, !.calls = loc[t].calls + 1])
    /\ UNCHANGED <<peer, routes, RoutingGenerationV4, RoutingGenerationV6>>
    /\ UNCHANGED notPeer

\* The configuration asks for the source to be looked up again.
ClearPeerCall(t) ==
    /\ pc[t] = "idle"
    /\ loc[t].calls < MaxUpdates
    /\ Call(t, "SocketClearPeerEndpointSrc", "idle",
            [NoLocals EXCEPT !.calls = loc[t].calls + 1])
    /\ UNCHANGED <<peer, routes, RoutingGenerationV4, RoutingGenerationV6>>
    /\ UNCHANGED notPeer

\* The rows of a table that are of a family.
RowsOf(Table, Family) == SelectSeq(Table, LAMBDA r : r.Family = Family)

\* Which of the forwarding tables the IPv4 rows of the machine are.
TableIndex ==
    CHOOSE i \in 1..Len(RouteTables) :
        RowsOf(RouteTables[i], AF_INET) = RowsOf(routes.table, AF_INET)

\* The IPv4 rows of the forwarding table change (to those of the next
\* table); the notification of the family is due.
RouteChange ==
    /\ routes.changes < MaxRouteChanges
    /\ routes' = [routes EXCEPT
                     !.table = RowsOf(RouteTables[(TableIndex % Len(RouteTables)) + 1], AF_INET)
                                  \o RowsOf(routes.table, AF_INET6),
                     !.changes = @ + 1,
                     !.notify[AF_INET] = @ + 1]
    /\ UNCHANGED <<pc, loc, peer, RoutingGenerationV4, RoutingGenerationV6>>
    /\ UNCHANGED notPeer

\* The IPv6 rows with the default route through the other interface.
RowsV6Moved == <<Row(AF_INET6, 0, 0, 20, 2)>> \o Tail(RowsV6)

\* The IPv6 default route moves to the other interface, or back; the
\* notification of the family is due.
RouteChangeV6 ==
    /\ routes.changes < MaxRouteChanges
    /\ routes' = [routes EXCEPT
                     !.table = RowsOf(routes.table, AF_INET)
                                  \o (IF RowsOf(routes.table, AF_INET6) = RowsV6
                                         THEN RowsV6Moved ELSE RowsV6),
                     !.changes = @ + 1,
                     !.notify[AF_INET6] = @ + 1]
    /\ UNCHANGED <<pc, loc, peer, RoutingGenerationV4, RoutingGenerationV6>>
    /\ UNCHANGED notPeer

\* A thread that sends chains and handshake messages to the peer, and the
\* kernel completing its sends.
NextSend ==
    \E t \in SendSenders :
        \/ SendNblsCall(t) \/ SendBufferCall(t)
        \/ SocketSendNblsToPeer(t) \/ SocketSendBufferToPeer(t)
        \/ SocketResolvePeerEndpointSrc(t)
        \/ SendAsync(t) \/ SendComplete(t)
        \/ PolyfilledWskSendMessages(t) \/ PolyfilledSendComplete(t)

\* Threads that send handshake messages to the peer, the kernel completing
\* their sends, a thread that updates the peer's endpoint, and changes of
\* the routes.
NextPeer ==
    \/ \E t \in PeerSenders :
          \/ SendBufferCall(t) \/ SocketSendBufferToPeer(t)
          \/ SocketResolvePeerEndpointSrc(t)
          \/ SendAsync(t) \/ SendComplete(t)
    \/ \E t \in PeerUpdaters :
          \/ SetPeerCall(t) \/ SetPeerFromNblCall(t) \/ ClearPeerCall(t)
          \/ SocketSetPeerEndpointFromNbl(t) \/ SocketSetPeerEndpoint(t)
          \/ SocketClearPeerEndpointSrc(t)
    \/ RouteChange
    \/ \E Family \in {AF_INET, AF_INET6} : RouteNotification(Family)

\* A thread that replies to datagrams, a thread that sets the peer's
\* endpoint from them, and changes of the routes.
NextNbl ==
    \/ \E t \in SendSenders :
          SendReplyCall(t) \/ SocketSendBufferAsReplyToNbl(t) \/ SendAsync(t) \/ SendComplete(t)
    \/ \E t \in PeerUpdaters :
          \/ SetPeerFromReplyCall(t)
          \/ SocketSetPeerEndpointFromNbl(t) \/ SocketSetPeerEndpoint(t)
    \/ RouteChange
    \/ \E Family \in {AF_INET, AF_INET6} : RouteNotification(Family)

\* Threads that set the peer's endpoint, from the configuration and from
\* datagrams, and changes of the routes.
NextSetPeer ==
    \/ \E t \in EndpointThreads :
          \/ SetPeerCall(t) \/ SetPeerFromNblCall(t)
          \/ SocketSetPeerEndpointFromNbl(t) \/ SocketSetPeerEndpoint(t)
    \/ RouteChange
    \/ \E Family \in {AF_INET, AF_INET6} : RouteNotification(Family)

\* A thread that sends chains and handshake messages to the peer while
\* another clears the source of the peer's endpoint.
NextLock ==
    \/ \E t \in PeerSenders :
          \/ SendNblsCall(t) \/ SendBufferCall(t)
          \/ SocketSendNblsToPeer(t) \/ SocketSendBufferToPeer(t)
          \/ SocketResolvePeerEndpointSrc(t)
          \/ SendAsync(t) \/ SendComplete(t)
    \/ \E t \in PeerUpdaters :
          ClearPeerCall(t) \/ SocketClearPeerEndpointSrc(t)

\* Two threads that send handshake messages to the peer, each running the
\* resolver, and a thread that sets the peer's endpoint and clears its source.
NextResolve ==
    \/ \E t \in SendThreads :
          \/ SendBufferCall(t) \/ SocketSendBufferToPeer(t)
          \/ SocketResolvePeerEndpointSrc(t)
          \/ SendAsync(t) \/ SendComplete(t)
    \/ \E t \in PeerUpdaters :
          \/ SetPeerRoamCall(t) \/ ClearPeerCall(t)
          \/ SocketSetPeerEndpoint(t) \/ SocketClearPeerEndpointSrc(t)

\* Two sending threads and one thread that calls SocketReinit again and again.
NextSock ==
    \/ \E t \in SendThreads :
          SendReplyCall(t) \/ SocketSendBufferAsReplyToNbl(t) \/ SendAsync(t) \/ SendComplete(t)
    \/ \E t \in {"r1"} :
          SocketReinitCall(t) \/ SocketReinit(t) \/ CloseSocket(t)

(***************************************************************************)
(* Specifications.                                                         *)
(***************************************************************************)
InitWskSpec == WskInit0 /\ SockOff /\ PeerOff /\ RecvOff

SpecWsk == InitWskSpec /\ [][NextWsk]_vars

\* SocketInit on a device whose transport is initialised: any families, any
\* ports held by other owners, no socket installed yet.
InitSockInit ==
    /\ WskInit0Done
    /\ pc = [t \in SockThreads |-> IF t \in InitThreads THEN "idle" ELSE "off"]
    /\ loc = [t \in SockThreads |-> NoLocals]
    /\ sockets = [s \in SockIds |-> NoSocket]
    /\ dev = [Sock4 |-> 0, Sock6 |-> 0, IncomingPort |-> 0, IsUp |-> FALSE,
              SocketUpdateLock |-> "free", ifInDiscards |-> 0]
    /\ rcuReaders = {}
    /\ \E b4 \in {{}, {1}}, b6 \in SUBSET Ports : os = [busy4 |-> b4, busy6 |-> b6]
    /\ lastBind = NoBind
    /\ faults = 0
    /\ PeerOff
    /\ RecvOff

SpecSockInit == InitSockInit /\ [][NextSockInit]_vars

\* Sends and SocketReinit calls on a device that is up.  The sockets exist:
\* those of odd number are IPv4 ones, those of even number IPv6 ones, a pair
\* on each port; the first pair is installed.
InitSock ==
    /\ WskInit0Done
    /\ WskHasIpv4Transport /\ WskHasIpv6Transport
    /\ pc = [t \in SockThreads |-> IF t \in SendThreads \cup {"r1"} THEN "idle" ELSE "off"]
    /\ loc = [t \in SockThreads |-> NoLocals]
    /\ sockets = [s \in SockIds |->
                     [NoSocket EXCEPT !.obj = "live", !.Sock = "open",
                                      !.family = IF s % 2 = 1 THEN AF_INET ELSE AF_INET6,
                                      !.port = (s + 1) \div 2]]
    /\ dev = [Sock4 |-> 1, Sock6 |-> 2, IncomingPort |-> 1, IsUp |-> TRUE,
              SocketUpdateLock |-> "free", ifInDiscards |-> 0]
    /\ rcuReaders = {}
    /\ os = [busy4 |-> {}, busy6 |-> {}]
    /\ lastBind = NoBind
    /\ faults = 0
    /\ PeerOff
    /\ RecvOff

SpecSock == InitSock /\ [][NextSock]_vars

\* Receive callbacks on the two installed sockets of a device, the engine
\* releasing what it was handed, the device going up and down, and one
\* thread calling SocketReinit (with no new sockets: the device's teardown).
InitRecv ==
    /\ WskInit0Done
    /\ WskHasIpv4Transport /\ WskHasIpv6Transport
    /\ pc = [t \in SockThreads |-> IF t \in RecvThreads \cup {"r1"} THEN "idle" ELSE "off"]
    /\ loc = [t \in SockThreads |-> NoLocals]
    /\ sockets = [s \in SockIds |->
                     IF s \in {1, 2}
                        THEN [NoSocket EXCEPT !.obj = "live", !.Sock = "open", !.port = 1,
                                              !.family = IF s = 1 THEN AF_INET ELSE AF_INET6]
                        ELSE NoSocket]
    /\ dev = [Sock4 |-> 1, Sock6 |-> 2, IncomingPort |-> 1, IsUp |-> TRUE,
              SocketUpdateLock |-> "free", ifInDiscards |-> 0]
    /\ rcuReaders = {}
    /\ os = [busy4 |-> {}, busy6 |-> {}]
    /\ lastBind = NoBind
    /\ faults = 0
    /\ PeerOff
    /\ RecvOff

NextRecv ==
    \/ \E t \in RecvThreads : ReceiveCall(t) \/ Receive(t)
    \/ \E d \in DatagramIds : EngineRelease(d)
    \/ SetIsUp
    \/ \E t \in {"r1"} : SocketReinitCall(t) \/ SocketReinit(t) \/ CloseSocket(t)

SpecRecv == InitRecv /\ [][NextRecv]_vars

\* A device that has an IPv4 socket and, the machine having no IPv6
\* transport, no IPv6 socket; nothing runs.
PeerDevice ==
    /\ WskInit0Done
    /\ WskHasIpv4Transport /\ ~WskHasIpv6Transport
    /\ loc = [t \in SockThreads |-> NoLocals]
    /\ sockets = [s \in SockIds |->
                     IF s = 1
                        THEN [NoSocket EXCEPT !.obj = "live", !.Sock = "open", !.port = 1,
                                              !.family = AF_INET]
                        ELSE NoSocket]
    /\ dev = [Sock4 |-> 1, Sock6 |-> 0, IncomingPort |-> 1, IsUp |-> TRUE,
              SocketUpdateLock |-> "free", ifInDiscards |-> 0]
    /\ rcuReaders = {}
    /\ os = [busy4 |-> {}, busy6 |-> {}]
    /\ lastBind = NoBind
    /\ faults = 0
    /\ RoutingGenerationV4 = 1
    /\ RoutingGenerationV6 = 1
    /\ cidr = NoCidr
    /\ RecvOff

\* Sends to a peer whose endpoint is a configured address of either family
\* (its source not looked up yet) or was never set, with any of the
\* forwarding tables, on either kind of kernel.
InitSend ==
    /\ PeerDevice
    /\ pc = [t \in SockThreads |-> IF t \in SendSenders THEN "idle" ELSE "off"]
    /\ NoWskSendMessages \in BOOLEAN
    /\ \E Addr \in AddrChoices :
          peer = [NoPeer EXCEPT !.Endpoint = [NoEndpoint EXCEPT !.family = Addr.family,
                                                                !.addr = Addr.addr]]
    /\ \E table \in 1..Len(RouteTables) : routes = [NoRoutes EXCEPT !.table = RouteTables[table]]

SpecSend == InitSend /\ [][NextSend]_vars

\* Sends to a peer whose endpoint, a configured IPv4 address at first, is
\* updated meanwhile, as are the routes.
InitPeer ==
    /\ PeerDevice
    /\ pc = [t \in SockThreads |->
                IF t \in PeerSenders \cup PeerUpdaters THEN "idle" ELSE "off"]
    /\ NoWskSendMessages = FALSE
    /\ peer = [NoPeer EXCEPT !.Endpoint = [NoEndpoint EXCEPT !.family = AF_INET, !.addr = 1]]
    /\ routes = NoRoutes

SpecPeer == InitPeer /\ [][NextPeer]_vars

\* Datagrams of either family are replied to and the peer's endpoint is set
\* from them while the routes change.
SpecNbl == InitPeer /\ [][NextNbl]_vars

\* Sends of both kinds to a peer whose source is cleared meanwhile, with
\* any of the forwarding tables.
InitLock ==
    /\ PeerDevice
    /\ pc = [t \in SockThreads |->
                IF t \in PeerSenders \cup PeerUpdaters THEN "idle" ELSE "off"]
    /\ NoWskSendMessages = FALSE
    /\ peer = [NoPeer EXCEPT !.Endpoint = [NoEndpoint EXCEPT !.family = AF_INET, !.addr = 1]]
    /\ \E table \in 1..Len(RouteTables) : routes = [NoRoutes EXCEPT !.table = RouteTables[table]]

SpecLock == InitLock /\ [][NextLock]_vars

\* Two resolvers at once on a peer whose endpoint is updated meanwhile.
InitResolve ==
    /\ PeerDevice
    /\ pc = [t \in SockThreads |->
                IF t \in SendThreads \cup PeerUpdaters THEN "idle" ELSE "off"]
    /\ NoWskSendMessages = FALSE
    /\ peer = [NoPeer EXCEPT !.Endpoint = [NoEndpoint EXCEPT !.family = AF_INET, !.addr = 1]]
    /\ routes = NoRoutes

SpecResolve == InitResolve /\ [][NextResolve]_vars

\* The CIDR matches on every address and every prefix of the model, of any
\* length, whether the prefix has bits beyond its length or not.
InitCidr ==
    /\ WskInit0 /\ SockOff /\ RecvOff
    /\ NoWskSendMessages = FALSE
    /\ RoutingGenerationV4 = 1
    /\ RoutingGenerationV6 = 1
    /\ peer = NoPeer
    /\ routes = NoRoutes
    /\ \E family \in {AF_INET, AF_INET6} :
          LET Width == IF family = AF_INET THEN AddrBits ELSE V6Words * WordBits
          IN \E Addr \in 0..(2 ^ Width - 1), Prefix \in 0..(2 ^ Width - 1),
                PrefixLength \in 0..Width :
                cidr = [family |-> family, Addr |-> Addr,
                        Prefix |-> [PrefixLength |-> PrefixLength, Prefix |-> Prefix],
                        matched |-> FALSE, Match |-> FALSE]

SpecCidr == InitCidr /\ [][CidrMaskMatch]_vars

\* The rows a forwarding table is made of here: through each interface, to
\* prefixes of every length that hold the peer's address and that do not,
\* with a low metric, a higher one, and one so high that its sum with the
\* interface's metric is beyond a ULONG.  No prefix has a bit set beyond its
\* length.
RouteRows ==
    {Row(AF_INET, Prefix[1], Prefix[2], Metric, If) :
        Prefix \in {<<0, 0>>, <<1, 0>>, <<1, 2>>, <<2, 1>>, <<2, 3>>},
        Metric \in {1, 96, MaxULong - 5},
        If \in 1..Len(IfRows)}

\* The IPv4 rows of a forwarding table.
MaxRows == 2

\* Handshake messages to a peer at either IPv4 address, with any forwarding
\* table of one to MaxRows IPv4 rows.
InitRoute ==
    /\ PeerDevice
    /\ pc = [t \in SockThreads |-> IF t \in SendSenders THEN "idle" ELSE "off"]
    /\ NoWskSendMessages = FALSE
    /\ \E addr \in {1, 3} :
          peer = [NoPeer EXCEPT !.Endpoint = [NoEndpoint EXCEPT !.family = AF_INET,
                                                                !.addr = addr]]
    /\ \E Rows \in UNION {[1..k -> RouteRows] : k \in 1..MaxRows} :
          routes = [NoRoutes EXCEPT !.table = Rows \o RowsV6]

NextRoute ==
    \E t \in SendSenders :
        \/ SendBufferCall(t) \/ SocketSendBufferToPeer(t)
        \/ SocketResolvePeerEndpointSrc(t)
        \/ SendAsync(t) \/ SendComplete(t)

SpecRoute == InitRoute /\ [][NextRoute]_vars

\* Handshake messages to a peer of either family while routes of either
\* family change, the source is cleared and the endpoint is set from
\* datagrams.
InitGen ==
    /\ PeerDevice
    /\ pc = [t \in SockThreads |->
                IF t \in PeerSenders \cup PeerUpdaters THEN "idle" ELSE "off"]
    /\ NoWskSendMessages = FALSE
    /\ \E Addr \in {[family |-> AF_INET, addr |-> 1], [family |-> AF_INET6, addr |-> 13]} :
          peer = [NoPeer EXCEPT !.Endpoint = [NoEndpoint EXCEPT !.family = Addr.family,
                                                                !.addr = Addr.addr]]
    /\ routes = NoRoutes

NextGen ==
    \/ \E t \in PeerSenders :
          \/ SendBufferCall(t) \/ SocketSendBufferToPeer(t)
          \/ SocketResolvePeerEndpointSrc(t)
          \/ SendAsync(t) \/ SendComplete(t)
    \/ \E t \in PeerUpdaters :
          \/ ClearPeerCall(t) \/ SetPeerFromReplyCall(t)
          \/ SocketClearPeerEndpointSrc(t)
          \/ SocketSetPeerEndpointFromNbl(t) \/ SocketSetPeerEndpoint(t)
    \/ RouteChange \/ RouteChangeV6
    \/ \E Family \in {AF_INET, AF_INET6} : RouteNotification(Family)

SpecGen == InitGen /\ [][NextGen]_vars

\* The peer's endpoint, a configured IPv4 address or none at first, is set
\* by two threads while the routes change.
InitSetPeer ==
    /\ PeerDevice
    /\ pc = [t \in SockThreads |-> IF t \in EndpointThreads THEN "idle" ELSE "off"]
    /\ NoWskSendMessages = FALSE
    /\ \E Addr \in {[family |-> AF_INET, addr |-> 1], [family |-> 0, addr |-> 0]} :
          peer = [NoPeer EXCEPT !.Endpoint = [NoEndpoint EXCEPT !.family = Addr.family,
                                                                !.addr = Addr.addr]]
    /\ routes = NoRoutes

SpecSetPeer == InitSetPeer /\ [][NextSetPeer]_vars


(***************************************************************************)
(* Claims about WskInit and WskUnload, checked under SpecWsk.              *)
(***************************************************************************)
\* Every status WskInit has returned so far is the cached one.
WskReturnsCached ==
    \A t \in WskThreads : \A i \in 1..Len(wRet[t]) : wRet[t][i] = WskInitStatus

\* C7: the body of WskInit does its work at most once over all callers,
\* sequential or concurrent: nothing is registered, subscribed or allocated
\* a second time, and every call returns the one cached status.
C7_InitWorkAtMostOnce ==
    /\ initWork <= 1
    /\ \A r \in WskResourceSet : resAcq[r] <= 1
    /\ WskReturnsCached

\* C7's case: one thread has made two calls, the other is a concurrent caller
\* that waited for the lock and found the status cached; the work ran once.
C7_Witness ==
    \E t1 \in WskThreads, t2 \in WskThreads :
        /\ t1 # t2
        /\ wRet[t1] = <<STATUS_SUCCESS, STATUS_SUCCESS>>
        /\ wpc[t2] = "cleanupIniting"
        /\ WskInitStatus = STATUS_SUCCESS
        /\ initWork = 1

\* C8: once a failure status is cached (which the failing WskInit does as it
\* returns), every resource the failed init acquired has been released, in
\* the reverse of the order of acquisition, the transport list buffer is
\* freed, and every call of WskInit has returned that failure status.
C8_FailedInitRollsBack ==
    ~(WskInitStatus \in {STATUS_RETRY, STATUS_SUCCESS}) =>
        /\ \A r \in WskResourceSet : resRel[r] = resAcq[r]
        /\ relLog = Reverse(acqLog)
        /\ ~WskTransports
        /\ WskReturnsCached

\* C8's case: the last step (the IPv6 route-change subscription) failed with
\* four resources held, and a later call returned the cached failure.
C8_Witness ==
    /\ ~(WskInitStatus \in {STATUS_RETRY, STATUS_SUCCESS})
    /\ Len(acqLog) = 4
    /\ \E t \in WskThreads : Len(wRet[t]) = 2


(***************************************************************************)
(* Claims about SocketInit, checked under SpecSockInit.                    *)
(***************************************************************************)
\* C5: SocketInit(Wg, 0) on a device with both transports asks WskBind for an
\* ephemeral port (port 0) for the IPv4 socket on every attempt, and so, when
\* exactly two ports are held by others on the IPv6 side, none on the IPv4
\* side, and nothing else fails, it returns success with both sockets
\* installed and IncomingPort the port GetLocalAddress reported last.
C5_PortCollisionRetry ==
    \A t \in InitThreads :
        (loc[t].ReqPort = 0 /\ WskHasIpv4Transport /\ WskHasIpv6Transport) =>
            /\ (pc[t] = "cb_bind" /\ loc[t].family = AF_INET) => loc[t].Sa4 = 0
            /\ (/\ pc[t] = "si_out"
                /\ faults = 0
                /\ os.busy4 = {}
                /\ Cardinality(os.busy6) = 2) =>
                   /\ loc[t].Status = STATUS_SUCCESS
                   /\ dev.Sock4 = loc[t].New4 /\ dev.Sock4 # 0
                   /\ dev.Sock6 = loc[t].New6 /\ dev.Sock6 # 0
                   /\ dev.IncomingPort = loc[t].Sa4

\* C6: SocketInit makes at most MaxRetries + 1 attempts; every retry followed
\* a WskBind of the IPv6 socket that failed with STATUS_ADDRESS_ALREADY_EXISTS
\* in a call whose Port was 0; a call with a non-zero Port returns after its
\* first attempt; and a call that has not returned can always take a step
\* (with the bounded attempts: it terminates).
C6_RetryOnlyOnEphemeralCollision ==
    \A t \in InitThreads :
        /\ loc[t].attempts <= MaxRetries + 1
        /\ \A r \in loc[t].retried :
              /\ r[1] = STATUS_ADDRESS_ALREADY_EXISTS
              /\ r[2] = 0
              /\ r[3].Status = STATUS_ADDRESS_ALREADY_EXISTS
              /\ r[3].family = AF_INET6
        /\ loc[t].ReqPort # 0 => loc[t].attempts <= 1
        /\ pc[t] = "idle" \/ ENABLED NextSockInit

\* C6's case: a call with Port 0 gave up with STATUS_ADDRESS_ALREADY_EXISTS
\* after 100 retries.
C6_Witness ==
    \E t \in InitThreads :
        /\ pc[t] = "si_out"
        /\ loc[t].ReqPort = 0
        /\ loc[t].Status = STATUS_ADDRESS_ALREADY_EXISTS
        /\ loc[t].attempts = MaxRetries + 1
        /\ loc[t].retried # {}


(***************************************************************************)
(* Claims about sends and SocketReinit, checked under SpecSock.            *)
(***************************************************************************)
\* The statements of a send between the load of the socket pointer and the
\* end of the read section.
HoldsSocket(t) ==
    /\ pc[t] \in {"sa_dispatch", "sa_sent", "sa_unlock"}
    /\ loc[t].Socket # 0

\* C1: whatever the interleaving of sends with SocketReinit calls, a send
\* that has loaded a socket pointer holds, until its read section ends, a
\* socket that exists and whose CloseSocket has not begun: every CloseSocket
\* of an old socket begins after the read sections that could have loaded
\* the pointer have ended.
C1_NoSendOnClosingSocket ==
    \A t \in SendThreads :
        HoldsSocket(t) =>
            /\ t \in rcuReaders
            /\ sockets[loc[t].Socket].obj = "live"
            /\ sockets[loc[t].Socket].Sock = "open"
            /\ sockets[loc[t].Socket].closeCalls = 0
            /\ \A r \in ReinitThreads :
                  pc[r] \in {"cs_wait", "cs_irp", "cs_close", "cs_free"} =>
                      loc[r].CloseArg # loc[t].Socket

\* C1's case: a send still holds the old IPv4 socket, which a SocketReinit
\* has replaced and now waits in RcuSynchronize to close.
C1_Witness ==
    \E t \in SendThreads, r \in ReinitThreads :
        /\ pc[t] = "sa_dispatch"
        /\ pc[r] = "ri_sync"
        /\ loc[r].Old4 = loc[t].Socket
        /\ dev.Sock4 # loc[t].Socket
        /\ t \in loc[r].wait


(***************************************************************************)
(* Claims about Receive and CloseSocket, checked under SpecRecv.           *)
(***************************************************************************)
\* The statements of CloseSocket after the wait for the rundown.
Drained(t) == pc[t] \in {"cs_irp", "cs_close", "cs_free"}

\* C2: a datagram holds an in-flight reference only on a socket whose
\* CloseSocket has neither passed the wait for the drain nor returned (the
\* SOCKET exists), and no datagram took its reference after the CloseSocket
\* of its socket had begun to wait.
C2_CloseDrainsReceives ==
    \A d \in DatagramIds :
        /\ datagrams[d].InFlight > 0 =>
               /\ sockets[datagrams[d].Socket].obj = "live"
               /\ \A t \in SockThreads :
                     Drained(t) => loc[t].CloseArg # datagrams[d].Socket
        /\ ~datagrams[d].closing

\* The datagrams of the lists given to Receive calls that have returned or
\* have gone past them in the loop.
Handled(d) ==
    /\ datagrams[d].at # "kernel"
    /\ \A t \in RecvThreads :
          \A i \in 1..Len(loc[t].DataIndication) : loc[t].DataIndication[i] # d

\* C9: every datagram Receive has handled either was released to the kernel
\* once, holds no in-flight reference and was in no batch, or was in one
\* batch with one in-flight reference (until the engine released it, once);
\* the discard counter has risen by one for each datagram released by
\* Receive; and PacketReceive was called for non-empty batches only.
C9_ReceiveOutcomes ==
    /\ \A d \in DatagramIds :
          Handled(d) =>
              \/ /\ datagrams[d].skipped
                 /\ datagrams[d].at = "released"
                 /\ datagrams[d].Released = 1
                 /\ datagrams[d].InFlight = 0
                 /\ datagrams[d].batched = 0
              \/ /\ ~datagrams[d].skipped
                 /\ datagrams[d].batched = 1
                 /\ \/ /\ datagrams[d].at \in {"batch", "engine"}
                       /\ datagrams[d].InFlight = 1
                       /\ datagrams[d].Released = 0
                    \/ /\ datagrams[d].at = "released"
                       /\ datagrams[d].InFlight = 0
                       /\ datagrams[d].Released = 1
    /\ dev.ifInDiscards + Cardinality({t \in RecvThreads : pc[t] = "rx_count"})
           = Cardinality({d \in DatagramIds : datagrams[d].skipped})
    /\ engine.PacketReceive <= Cardinality({d \in DatagramIds : datagrams[d].batched > 0})

(***************************************************************************)
(* Claims about the sends to a peer and the peer's endpoint, checked under *)
(* SpecPeer.                                                               *)
(***************************************************************************)
\* The thread's call of SocketSendNblsToPeer with a chain has returned.
SentChain(t) == pc[t] = "idle" /\ loc[t].Sent # <<>>

\* C3: a chain given to SocketSendNblsToPeer is freed once at most; when the
\* call has returned a failure the chain has been freed once by the call
\* and no completion is due; when it has returned success the chain is
\* freed by the completion routine, which is due or has run, and by nothing
\* else.
C3_ChainFreedOnce ==
    \A t \in SendThreads :
        /\ loc[t].nblFrees <= 1
        /\ SentChain(t) =>
              IF NT_SUCCESS(loc[t].Status)
                 THEN \/ loc[t].Irp \in {"pending", "polyfilled"} /\ loc[t].nblFrees = 0
                      \/ loc[t].Irp = "completed" /\ loc[t].nblFrees = 1
                 ELSE loc[t].Irp = "none" /\ loc[t].nblFrees = 1

\* Every packet of the chain has the length of a keepalive.
EveryKeepalive(Nbls) ==
    \A i \in 1..Len(Nbls) : \A j \in 1..Len(Nbls[i]) : Nbls[i][j] = MessageDataLen(0)

\* C4: when SocketSendNblsToPeer has returned STATUS_SUCCESS for a chain,
\* AllKeepalive is true if and only if every packet of every list of the
\* chain has the length of a keepalive.
C4_AllKeepalive ==
    \A t \in SendThreads :
        SentChain(t) /\ loc[t].Status = STATUS_SUCCESS =>
            (loc[t].AllKeepalive <=> EveryKeepalive(loc[t].Sent))

\* C4's case: a chain of two lists, a keepalive and a longer packet, was
\* sent with success and AllKeepalive is false.
C4_Witness ==
    \E t \in SendThreads :
        /\ SentChain(t)
        /\ loc[t].Status = STATUS_SUCCESS
        /\ loc[t].Sent = <<<<MessageDataLen(0)>>, <<MessageDataLen(16)>>>>
        /\ ~loc[t].AllKeepalive

\* The interface and the source a lookup for Addr gives with a forwarding
\* table of the machine.
LookupResults(Addr) ==
    {LET Index == ScanTable(SelectSeq(RouteTables[table], LAMBDA r : r.Family = Addr.family),
                            Addr, NoBest).BestIndex
     IN [ifindex |-> Index, src |-> IfAddr(Index)] : table \in 1..Len(RouteTables)}

\* C10: whenever the fast path holds for the peer's endpoint and the
\* resolver wrote the cached source, every read of the remote address the
\* lookup made saw the address the endpoint holds now, and the source and
\* the interface are what a lookup for that address gives.
C10_CachedSourceForCurrentAddr ==
    FastPath(peer.Endpoint) /\ peer.srcBy = "resolver" =>
        /\ peer.srcSeen = {AddrOf(peer.Endpoint)}
        /\ [ifindex |-> peer.Endpoint.ifindex, src |-> peer.Endpoint.src]
               \in LookupResults(AddrOf(peer.Endpoint))

\* C10's case: SocketSetPeerEndpoint has replaced the remote address the
\* peer began with, the resolver has since written the source, and the fast
\* path holds.
C10_Witness ==
    /\ FastPath(peer.Endpoint)
    /\ peer.srcBy = "resolver"
    /\ AddrOf(peer.Endpoint) = [family |-> AF_INET, addr |-> 3]


(***************************************************************************)
(* Claims about the resolver's outcomes, checked under SpecSend.           *)
(***************************************************************************)
\* The resolver has just returned to the send function that called it.
Resolved(t) == pc[t] \in {"sn_resolved", "sb_resolved"}

\* C11: SocketResolvePeerEndpointSrc on a peer whose endpoint's family is
\* neither AF_INET nor AF_INET6 (the family 0 of an endpoint never set
\* included) returns STATUS_INVALID_PARAMETER, unless an allocation of the
\* lookup failed.
C11_InvalidFamilyInvalidParameter ==
    \A t \in SendThreads :
        Resolved(t) /\ peer.Endpoint.family \notin {AF_INET, AF_INET6}
            => loc[t].Status \in {STATUS_INVALID_PARAMETER, STATUS_INSUFFICIENT_RESOURCES}

(***************************************************************************)
(* Claims about SocketEndpointFromNbl, checked under SpecNbl.              *)
(***************************************************************************)
\* Thread t holds in loc[t].Endpoint what SocketEndpointFromNbl made of the
\* datagram loc[t].Data: it is in SocketSetPeerEndpoint (line 576), or in
\* SendAsync or back from it (lines 449-450).
FromNbl(t) ==
    \/ pc[t] \in {"SocketSetPeerEndpoint", "sp_lock", "sp_write"}
    \/ pc[t] = "rp_sent"
    \/ loc[t].stack # <<>> /\ Head(loc[t].stack) = "rp_sent"

\* The endpoints are equal in their bytes.
ByteEqual(A, B) == [A EXCEPT !.storedAt = 0] = [B EXCEPT !.storedAt = 0]

\* C12 as stated: two applications of SocketEndpointFromNbl to the same
\* datagram yield equal endpoints, RoutingGeneration included, whatever
\* happens between them.
C12_Idempotent ==
    \A t, u \in SockThreads :
        FromNbl(t) /\ FromNbl(u) /\ loc[t].Data = loc[u].Data
            => ByteEqual(loc[t].Endpoint, loc[u].Endpoint)

\* The routing generation of a family now.
GenerationNow(family) ==
    IF family = AF_INET THEN RoutingGenerationV4 ELSE RoutingGenerationV6

\* C12 (amended): two applications of SocketEndpointFromNbl to the same
\* datagram yield endpoints equal in every field but RoutingGeneration, and
\* an application made while the generation of the datagram's family is
\* still the one a previous application recorded yields an endpoint equal to
\* the previous one in RoutingGeneration too.
C12_IdempotentBetweenNotifications ==
    /\ \A t, u \in SockThreads :
          FromNbl(t) /\ FromNbl(u) /\ loc[t].Data = loc[u].Data
              => ByteEqual([loc[t].Endpoint EXCEPT !.RoutingGeneration = 0],
                           [loc[u].Endpoint EXCEPT !.RoutingGeneration = 0])
    /\ \A t \in SockThreads :
          /\ FromNbl(t)
          /\ loc[t].Endpoint.RoutingGeneration = GenerationNow(loc[t].Data.family)
          => /\ NT_SUCCESS(SocketEndpointFromNbl(loc[t].Data).Status)
             /\ ByteEqual(SocketEndpointFromNbl(loc[t].Data).Endpoint, loc[t].Endpoint)

\* Two threads hold endpoints made of one datagram, the second made after a
\* notification that followed the first.
C12_Witness ==
    \E t, u \in SockThreads :
        /\ t # u
        /\ FromNbl(t) /\ FromNbl(u) /\ loc[t].Data = loc[u].Data
        /\ loc[t].Endpoint.RoutingGeneration < loc[u].Endpoint.RoutingGeneration
        /\ loc[u].Endpoint.RoutingGeneration = GenerationNow(loc[u].Data.family)

(***************************************************************************)
(* Claims about SocketSetPeerEndpoint, checked under SpecSetPeer.          *)
(***************************************************************************)
\* Thread t is in SocketSetPeerEndpoint.
InSetPeer(t) == pc[t] \in {"SocketSetPeerEndpoint", "sp_lock", "sp_write"}

\* The endpoints are equal as the claim has it: in family, remote address
\* and source pkt-info (the port and the scope are the same for all).
SameEndpoint(A, B) ==
    /\ A.family = B.family /\ A.addr = B.addr
    /\ A.src = B.src /\ A.ifindex = B.ifindex

\* Thread t is at the call of SocketSetPeerEndpoint with an endpoint equal to
\* the peer's, as is that of every thread inside the function.
CallsWithEqual(t) ==
    /\ pc[t] = "SocketSetPeerEndpoint"
    /\ SameEndpoint(loc[t].Endpoint, peer.Endpoint)
    /\ \A u \in EndpointThreads :
          InSetPeer(u) => SameEndpoint(loc[u].Endpoint, loc[t].Endpoint)

\* C13: SocketSetPeerEndpoint with an endpoint equal to the peer's returns
\* at once: the thread does not go on to the write lock, and no field of the
\* peer's endpoint (UpdateGeneration and RoutingGeneration included), nor
\* the lock, changes -- with any number of threads calling it with that
\* value at a time.
C13_EqualEndpointNoOp ==
    [][\A t \in EndpointThreads :
          CallsWithEqual(t) /\ pc'[t] # pc[t]
              => pc'[t] = "idle" /\ peer' = peer]_vars

\* Both threads are at the call with the endpoint the peer holds, which a
\* datagram gave it (with a source), the generation of the routes having
\* moved since.
C13_Witness ==
    /\ \A t \in EndpointThreads : CallsWithEqual(t)
    /\ peer.Endpoint.src # 0
    /\ \E t \in EndpointThreads :
          loc[t].Endpoint.RoutingGeneration # peer.Endpoint.RoutingGeneration

(***************************************************************************)
(* Claims about SocketClearPeerEndpointSrc and the routing generations,    *)
(* checked under SpecPeer.                                                 *)
(***************************************************************************)
\* The source of the peer's endpoint is as SocketClearPeerEndpointSrc left
\* it: neither the resolver nor SocketSetPeerEndpoint has written it since.
SrcCleared == peer.srcBy = "SocketClearPeerEndpointSrc"

\* C14: after SocketClearPeerEndpointSrc, until SocketSetPeerEndpoint or a
\* resolver's lookup writes the source, the fast path of the resolver is
\* closed and no resolver has returned success: the next resolve goes to
\* the forwarding table.  SocketClearPeerEndpointSrc leaves the remote
\* address as it was and adds one to UpdateGeneration.
C14_ClearForcesLookup ==
    /\ [](SrcCleared =>
            /\ ~FastPath(peer.Endpoint)
            /\ \A t \in SendThreads : ~(Resolved(t) /\ NT_SUCCESS(loc[t].Status)))
    /\ [][\A t \in SockThreads :
             /\ pc[t] = "rs_retry" /\ pc'[t] # pc[t] /\ SrcCleared => pc'[t] = "rs_table"
             /\ pc[t] = "cl_write" /\ pc'[t] # pc[t]
                    => /\ AddrOf(peer'.Endpoint) = AddrOf(peer.Endpoint)
                       /\ peer'.Endpoint.UpdateGeneration = peer.Endpoint.UpdateGeneration + 1
                       /\ SrcCleared']_vars

\* The second send of a thread is at the query of the forwarding table,
\* having found under the read lock the source cleared, by the one update
\* made so far, after the resolver had written it.
C14_Witness ==
    \E t \in SendThreads :
        /\ pc[t] = "rs_table" /\ loc[t].calls = 2
        /\ SrcCleared
        /\ \A u \in PeerUpdaters : pc[u] = "idle" /\ loc[u].calls = 1
        /\ peer.Endpoint.UpdateGeneration = 2
        /\ loc[t].UpdateGeneration = peer.Endpoint.UpdateGeneration

(***************************************************************************)
(* Claims about the CIDR matches, checked under SpecCidr.                  *)
(***************************************************************************)
\* The bits of an address of the family.
WidthOf(family) == IF family = AF_INET THEN AddrBits ELSE V6Words * WordBits

\* Value & mask(Length) over Width bits; mask(0) = 0.
Masked(Value, Length, Width) == Value - (Value % (2 ^ (Width - Length)))

\* C15: the CIDR match of an address A against a prefix P of length L is
\* true exactly when (A & mask(L)) = (P & mask(L)), whether or not P has
\* bits set beyond L; a prefix of length 0 always matches.
C15_CidrMatchIsMaskedEquality ==
    cidr.matched =>
        LET Width == WidthOf(cidr.family)
            Length == cidr.Prefix.PrefixLength
        IN cidr.Match = (Masked(cidr.Addr, Length, Width)
                            = Masked(cidr.Prefix.Prefix, Length, Width))

(***************************************************************************)
(* Claims about the endpoint lock, checked under SpecLock.                 *)
(***************************************************************************)
\* Thread t holds the peer's EndpointLock in no mode.
HoldsNoLock(t) == t \notin peer.readers /\ peer.writer # t

\* C16: SocketResolvePeerEndpointSrc returns success holding the peer's
\* EndpointLock in read mode, once, and returns every failure holding it in
\* no mode; the send function that got success releases it once, and no send
\* function returns holding it.
C16_ResolverLockDiscipline ==
    /\ [](\A t \in SendThreads :
            /\ Resolved(t) =>
                  IF NT_SUCCESS(loc[t].Status)
                     THEN t \in peer.readers /\ peer.writer # t
                     ELSE HoldsNoLock(t)
            /\ pc[t] = "idle" => HoldsNoLock(t))
    /\ [][\A t \in SendThreads :
             \* the lock is taken by a thread that does not hold it
             /\ pc[t] \in {"rs_retry", "rs_lock", "rs_recheck"} /\ pc'[t] # pc[t]
                    => HoldsNoLock(t)
             \* and kept in read mode only to return success
             /\ t \notin peer.readers /\ t \in peer'.readers
                    => /\ pc'[t] \in {"sn_resolved", "sb_resolved"}
                       /\ NT_SUCCESS(loc'[t].Status)
             \* the send function that got success releases it
             /\ Resolved(t) /\ NT_SUCCESS(loc[t].Status) /\ pc'[t] # pc[t]
                    => t \in peer.readers /\ HoldsNoLock(t)']_vars

\* The resolver has returned success to SocketSendNblsToPeer with the read
\* lock held, after the source was cleared and looked up again.
C16_Witness ==
    \E t \in SendThreads :
        /\ pc[t] = "sn_resolved" /\ NT_SUCCESS(loc[t].Status)
        /\ t \in peer.readers
        /\ peer.Endpoint.UpdateGeneration >= 2

(***************************************************************************)
(* Claims about resolvers running at once, checked under SpecResolve.      *)
(***************************************************************************)
\* The step changes the peer's endpoint other than in UpdateGeneration.
Mutates ==
    [peer'.Endpoint EXCEPT !.UpdateGeneration = 0]
        # [peer.Endpoint EXCEPT !.UpdateGeneration = 0]

\* C17: every mutation of the peer's endpoint adds one to UpdateGeneration;
\* a resolver that finds, under the write lock, UpdateGeneration other than
\* its snapshot writes nothing and starts again at the read lock; a resolver
\* writes only with UpdateGeneration equal to its snapshot, and returns
\* success after its write only if UpdateGeneration under the read lock is
\* the one it wrote.  So no resolver overwrites a mutation made after its
\* snapshot.
C17_StaleResolverWritesNothing ==
    [][/\ Mutates => peer'.Endpoint.UpdateGeneration = peer.Endpoint.UpdateGeneration + 1
       /\ \A t \in SendThreads :
             /\ /\ pc[t] = "rs_write" /\ pc'[t] # pc[t]
                /\ peer.Endpoint.UpdateGeneration # loc[t].UpdateGeneration
                => peer'.Endpoint = peer.Endpoint /\ pc'[t] = "rs_retry"
             /\ /\ pc[t] = "rs_write" /\ pc'[t] # pc[t]
                /\ peer'.Endpoint # peer.Endpoint
                => /\ peer.Endpoint.UpdateGeneration = loc[t].UpdateGeneration
                   /\ loc'[t].UpdateGeneration = peer'.Endpoint.UpdateGeneration
                          \/ pc'[t] = "sb_resolved"
             /\ /\ pc[t] = "rs_recheck" /\ pc'[t] # pc[t]
                => IF peer.Endpoint.UpdateGeneration = loc[t].UpdateGeneration
                      THEN pc'[t] = "sb_resolved" /\ NT_SUCCESS(loc'[t].Status)
                      ELSE pc'[t] = "rs_retry" /\ t \notin peer'.readers]_vars

\* A resolver holds the write lock with a snapshot older than the endpoint,
\* whose source the other resolver wrote meanwhile.
C17_Witness ==
    \E t \in SendThreads :
        /\ pc[t] = "rs_write"
        /\ peer.Endpoint.UpdateGeneration # loc[t].UpdateGeneration
        /\ peer.srcBy = "resolver"

\* The rows of Table that qualify for the remote address Addr: not through
\* the tunnel's own interface, the prefix holding the address, and the
\* interface up (every interface of the model can be queried).
Qualifying(Table, Addr) ==
    {i \in 1..Len(Table) :
        /\ Table[i].InterfaceLuid # OwnLuid
        /\ Masked(Addr.addr, Table[i].DestinationPrefix.PrefixLength, WidthOf(Addr.family))
              = Masked(Table[i].DestinationPrefix.Prefix,
                       Table[i].DestinationPrefix.PrefixLength, WidthOf(Addr.family))
        /\ IfRows[Table[i].InterfaceLuid].OperStatus = "IfOperStatusUp"}

\* The total metric of a row: the route's metric plus the interface's; and
\* the same as the ULONG the sum is held in.
TotalMetric(Entry) == Entry.Metric + IfRows[Entry.InterfaceLuid].Metric

TotalMetricULong(Entry) == TotalMetric(Entry) % (MaxULong + 1)

\* The qualifying rows of the longest prefix length and, among those, of the
\* lowest total metric.
Selected(Table, Addr, Total(_)) ==
    {i \in Qualifying(Table, Addr) :
        \A j \in Qualifying(Table, Addr) :
           \/ Table[j].DestinationPrefix.PrefixLength < Table[i].DestinationPrefix.PrefixLength
           \/ /\ Table[j].DestinationPrefix.PrefixLength
                    = Table[i].DestinationPrefix.PrefixLength
              /\ Total(Table[j]) >= Total(Table[i])}

\* What the resolver has written and returned, given the forwarding table.
SelectsBy(Total(_)) ==
    LET Addr == AddrOf(peer.Endpoint)
        Table == SelectSeq(routes.table, LAMBDA r : r.Family = Addr.family)
    IN /\ peer.srcBy = "resolver" =>
             IF Qualifying(Table, Addr) = {}
                THEN peer.Endpoint.ifindex = 0
                ELSE peer.Endpoint.ifindex
                        \in {Table[i].InterfaceIndex : i \in Selected(Table, Addr, Total)}
       /\ \A t \in SendSenders :
             /\ Resolved(t)
             /\ Qualifying(Table, Addr) = {}
             /\ loc[t].Status # STATUS_INSUFFICIENT_RESOURCES
             => loc[t].Status = STATUS_BAD_NETWORK_PATH

StoredBeforeNotification(Endpoint) ==
    /\ Endpoint.family \in {AF_INET, AF_INET6}
    /\ Endpoint.storedAt # -1
    /\ Endpoint.storedAt < routes.delivered[Endpoint.family]

StoredSinceNotification(Endpoint) ==
    /\ Endpoint.family \in {AF_INET, AF_INET6}
    /\ Endpoint.storedAt = routes.delivered[Endpoint.family]

\* The resolver of thread t decides between the cached source and a lookup.
Decides(t) == pc[t] = "rs_retry" /\ pc'[t] # "rs_retry"

\* C19: when a notification of the endpoint's family has run since the
\* endpoint's RoutingGeneration was stored, the resolver goes on to query the
\* forwarding table; when the resolver wrote a source last and no
\* notification of the endpoint's family has run since, whatever
\* notifications of the other family have, the resolver returns success at
\* once, holding the shared lock, without a query.
C19_NotificationInvalidatesFamily ==
    [][\A t \in PeerSenders :
          Decides(t) =>
             /\ StoredBeforeNotification(peer.Endpoint) => pc'[t] = "rs_table"
             /\ /\ peer.srcBy = "resolver"
                /\ peer.Endpoint.ifindex # 0
                /\ StoredSinceNotification(peer.Endpoint)
                => /\ pc'[t] = "sb_resolved"
                   /\ loc'[t].Status = STATUS_SUCCESS
                   /\ t \in peer'.readers]_vars

\* C19's case: the first send had the resolver write a source, a
\* notification of the endpoint's family ran, and the resolver of the second
\* send has gone on to query the forwarding table; the endpoint was never
\* updated otherwise.
C19_Witness ==
    \E t \in PeerSenders :
        /\ pc[t] = "rs_table"
        /\ loc[t].calls = 2
        /\ peer.srcBy = "resolver"
        /\ peer.Endpoint.ifindex # 0
        /\ StoredBeforeNotification(peer.Endpoint)
        /\ \A u \in PeerUpdaters : pc[u] = "idle" /\ loc[u].calls = 0

\* C20: a send context is returned to the pool no more often than it was
\* taken, and so is the buffer; and once the function that took the context
\* has returned, then after a failure status the context (and the buffer, if
\* one was allocated) has been freed once and no IRP was issued, so that no
\* completion runs, and after a success status nothing has been freed while
\* the IRP is pending and both have been freed once when it has completed.
C20_ContextReturnedOnce ==
    \A t \in SendThreads :
        /\ loc[t].ctxFrees <= loc[t].ctxTaken
        /\ loc[t].mdlFrees <= loc[t].mdlTaken
        /\ pc[t] = "idle" /\ loc[t].ctxTaken = 1 =>
              IF NT_SUCCESS(loc[t].Status)
                 THEN \/ /\ loc[t].Irp \in {"pending", "polyfilled"}
                         /\ loc[t].ctxFrees = 0
                         /\ loc[t].mdlFrees = 0
                      \/ /\ loc[t].Irp = "completed"
                         /\ loc[t].ctxFrees = 1
                         /\ loc[t].mdlFrees = loc[t].mdlTaken
                 ELSE /\ loc[t].Irp = "none"
                      /\ loc[t].ctxFrees = 1
                      /\ loc[t].mdlFrees = loc[t].mdlTaken

(***************************************************************************)
(* Claims about CloseSocket, checked under SpecRecv.                       *)
(***************************************************************************)
\* C21: CloseSocket works in order on a socket with a kernel handle: while
\* it issues the close or frees the object nothing is in flight any more,
\* the kernel socket is closed only after the drain, and the object is never
\* freed while its kernel socket is still open.
C21_CloseInOrder ==
    /\ \A t \in SockThreads :
          pc[t] \in {"cs_irp", "cs_close", "cs_free"} =>
             sockets[loc[t].CloseArg].ItemsInFlight = 0
    /\ \A s \in SockIds :
          /\ sockets[s].Sock = "closed" => sockets[s].ItemsInFlight = 0
          /\ sockets[s].obj = "freed" => sockets[s].Sock # "open"

(***************************************************************************)
(* Claims about the polyfill of WskSendMessages, checked under SpecSend.   *)
(***************************************************************************)
\* C22: for a chain sent through PolyfilledWskSendMessages the completion
\* routine of the IRP given runs at most once, not before the loop has ended
\* and every individual send issued has completed, and it has run once when
\* the function has returned and no individual send is outstanding.
C22_PolyfillCompletesOnce ==
    \A t \in SendThreads :
        NoWskSendMessages /\ loc[t].IsNbl =>
           /\ loc[t].ctxFrees <= 1
           /\ loc[t].Irp = "completed" =>
                 /\ loc[t].subIrps = 0
                 /\ pc[t] \notin {"PolyfilledWskSendMessages", "pf_loop", "pf_done"}
           /\ /\ pc[t] = "idle"
              /\ NT_SUCCESS(loc[t].Status)
              /\ loc[t].subIrps = 0
              => loc[t].Irp = "completed" /\ loc[t].ctxFrees = 1

(***************************************************************************)
(* Claims about the routing generations, checked under SpecGen.            *)
(***************************************************************************)
\* The resolver of thread t writes a source to the endpoint.
WritesSource(t) ==
    /\ pc[t] = "rs_write"
    /\ pc'[t] # "rs_retry"
    /\ peer.Endpoint.family \in {AF_INET, AF_INET6}

\* C23: the RoutingGeneration the resolver stores is not newer than the
\* table it computed the source from: no notification of the endpoint's
\* family has run between the query of the table and the reading of the
\* generation that is stored.
C23_GenerationNotNewerThanTable ==
    [][\A t \in PeerSenders :
          WritesSource(t) => peer'.Endpoint.storedAt <= loc[t].TableAt]_vars

(***************************************************************************)
(* Claims about sequences of WskInit and WskUnload, checked under SpecWsk. *)
(***************************************************************************)
\* WskInit returns Status to thread t in this step.
WskInitReturns(t, Status) ==
    /\ Len(wRet'[t]) = Len(wRet[t]) + 1
    /\ wRet'[t][Len(wRet'[t])] = Status

\* C24: over any sequence of WskInit and WskUnload no resource is released
\* more often than it was acquired, and WskInit does not return success when
\* a resource it stands for has been released.
C24_TeardownOncePerInit ==
    [][/\ \A r \in WskResourceSet : resRel'[r] <= resAcq'[r]
       /\ \A t \in WskThreads :
             WskInitReturns(t, STATUS_SUCCESS) =>
                \A r \in WskResourceSet : resRel'[r] < resAcq'[r]]_vars

(***************************************************************************)
(* Concurrent calls of SocketReinit on one device: two threads, each with  *)
(* a new pair of sockets or with none.  Checked under SpecReinit.          *)
(***************************************************************************)
InitReinit ==
    /\ WskInit0Done
    /\ WskHasIpv4Transport /\ WskHasIpv6Transport
    /\ pc = [t \in SockThreads |-> IF t \in ReinitThreads THEN "idle" ELSE "off"]
    /\ loc = [t \in SockThreads |-> NoLocals]
    /\ sockets = [s \in SockIds |->
                     [NoSocket EXCEPT !.obj = "live", !.Sock = "open",
                                      !.family = IF s % 2 = 1 THEN AF_INET ELSE AF_INET6,
                                      !.port = (s + 1) \div 2]]
    /\ dev = [Sock4 |-> 1, Sock6 |-> 2, IncomingPort |-> 1, IsUp |-> TRUE,
              SocketUpdateLock |-> "free", ifInDiscards |-> 0]
    /\ rcuReaders = {}
    /\ os = [busy4 |-> {}, busy6 |-> {}]
    /\ lastBind = NoBind
    /\ faults = 0
    /\ PeerOff
    /\ RecvOff

NextReinit ==
    \E t \in ReinitThreads : SocketReinitCall(t) \/ SocketReinit(t) \/ CloseSocket(t)

SpecReinit == InitReinit /\ [][NextReinit]_vars

\* Socket s is installed in the device.
Installed(s) == s # 0 /\ s \in {dev.Sock4, dev.Sock6}

\* The sockets the SocketReinit of thread t has replaced and is to close.
Replaced(t) ==
    IF pc[t] \in {"ri_swap6", "ri_unlock", "ri_sync", "ri_close6", "ri_return"}
          \/ (pc[t] \in {"CloseSocket", "cs_wait", "cs_irp", "cs_close", "cs_free"}
                 /\ loc[t].stack # <<>>)
       THEN {loc[t].Old4, loc[t].Old6} \ {0}
       ELSE {}

\* Thread t is inside CloseSocket(s).
Closing(t, s) ==
    /\ pc[t] \in {"CloseSocket", "cs_wait", "cs_irp", "cs_close", "cs_free"}
    /\ loc[t].CloseArg = s

\* What holds of the sockets in every state: an installed socket is live and
\* no CloseSocket has been called on it; CloseSocket is called on a socket at
\* most once and never after it was freed, and only by the thread that
\* replaced it; no two threads have replaced one socket; and a SocketReinit
\* returns with the sockets it replaced freed.
ClosedOnceByReplacer ==
    /\ \A s \in SockIds :
          /\ sockets[s].closeCalls <= 1
          /\ \A t \in ReinitThreads : Closing(t, s) => sockets[s].obj = "live"
          /\ Installed(s) =>
                /\ sockets[s].obj = "live"
                /\ sockets[s].closeCalls = 0
                /\ \A t \in ReinitThreads : ~Closing(t, s)
          /\ \A t \in ReinitThreads : Closing(t, s) => s \in Replaced(t)
    /\ \A t, u \in ReinitThreads : t # u => Replaced(t) \cap Replaced(u) = {}
    /\ \A t \in ReinitThreads :
          pc[t] = "ri_return" => \A s \in Replaced(t) : sockets[s].obj = "freed"

SocketInitFailed(t) ==
    pc[t] = "idle" /\ loc[t].calls = 1 /\ ~NT_SUCCESS(loc[t].Status)

\* The device is as it was before the call: nothing installed, no port.
DeviceUntouched == dev.Sock4 = 0 /\ dev.Sock6 = 0 /\ dev.IncomingPort = 0

\* C26: when SocketInit returns a failure the device's Sock4, Sock6 and
\* IncomingPort are as they were before the call (SocketReinit was not
\* called), and no socket the call created is left: every one has been
\* closed and freed.
C26_FailureLeavesNothing ==
    \A t \in InitThreads :
        SocketInitFailed(t) =>
           /\ DeviceUntouched
           /\ \A s \in SockIds :
                 sockets[s].Sock # "open" /\ sockets[s].obj \in {"none", "freed"}

(***************************************************************************)
(* Both send functions against the updates of the endpoint: the source     *)
(* cleared, and the endpoint set from datagrams of either family, with and *)
(* without packet information.  Checked under SpecSnap.                    *)
(***************************************************************************)
NextSnap ==
    \/ \E t \in PeerSenders :
          \/ SendNblsCall(t) \/ SendBufferCall(t)
          \/ SocketSendNblsToPeer(t) \/ SocketSendBufferToPeer(t)
          \/ SocketResolvePeerEndpointSrc(t)
          \/ SendAsync(t) \/ SendComplete(t)
    \/ \E t \in PeerUpdaters :
          \/ ClearPeerCall(t) \/ SetPeerFromReplyCall(t)
          \/ SocketClearPeerEndpointSrc(t)
          \/ SocketSetPeerEndpointFromNbl(t) \/ SocketSetPeerEndpoint(t)

SpecSnap == InitGen /\ [][NextSnap]_vars

\* A send function of thread t copies the peer's endpoint into its send
\* context (lines 349 and 412) and goes on to SendAsync.
CopiesEndpoint(t) ==
    pc[t] \in {"sn_resolved", "sb_resolved"} /\ pc'[t] = "SendAsync"

\* C27: the endpoint a send function copies into its send context and
\* dispatches is read with the read lock held and no writer inside, so it is
\* the endpoint as one write left it, and its source interface index, the
\* one of its family, is not zero, after the fast path and after the slow
\* path of the resolver.
C27_DispatchedEndpointIsSnapshot ==
    [][\A t \in PeerSenders :
          CopiesEndpoint(t) =>
             /\ t \in peer.readers
             /\ peer.writer = "free"
             /\ loc'[t].Endpoint = peer.Endpoint
             /\ peer.Endpoint.family \in {AF_INET, AF_INET6}
             /\ peer.Endpoint.ifindex # 0]_vars

\* C27's case: a chain is dispatched to an endpoint whose source the
\* resolver wrote on the slow path after the endpoint was updated twice, and
\* the endpoint has been updated again since the copy.
C27_Witness ==
    \E t \in PeerSenders :
        /\ pc[t] = "sa_dispatch"
        /\ loc[t].IsNbl
        /\ loc[t].Endpoint.ifindex # 0
        /\ loc[t].Endpoint.UpdateGeneration >= 3
        /\ peer.Endpoint # loc[t].Endpoint

(***************************************************************************)
(* Claims about the resolver's forwarding table, checked under SpecPeer.   *)
(***************************************************************************)
\* C29: the table GetIpForwardTable2 returned is freed once before the
\* resolver returns or starts again: FreeMibTable (line 290) runs on a
\* table that is held, and the resolver neither returns nor is back at its
\* retry label holding one.
C29_TableFreedOnce ==
    \A t \in PeerSenders :
        /\ pc[t] = "rs_best" => loc[t].TableHeld
        /\ pc[t] = "rs_retry" \/ Resolved(t) => ~loc[t].TableHeld

(***************************************************************************)
(* Termination of the resolver: a thread that sends handshake messages and *)
(* a thread that sets the peer's endpoint and clears its source, with the  *)
(* scheduling the kernel gives: a thread that is inside a function and can *)
(* take its next step takes it (each thread runs on a processor and the    *)
(* calls it makes to the kernel return), so a spin lock that is held is    *)
(* released.  Nothing obliges the engine to call.  Checked under SpecLive. *)
(***************************************************************************)
NextLive ==
    \/ \E t \in PeerSenders :
          \/ SendBufferCall(t) \/ SocketSendBufferToPeer(t)
          \/ SocketResolvePeerEndpointSrc(t)
          \/ SendAsync(t) \/ SendComplete(t)
    \/ \E t \in PeerUpdaters :
          \/ SetPeerRoamCall(t) \/ ClearPeerCall(t)
          \/ SocketSetPeerEndpoint(t) \/ SocketClearPeerEndpointSrc(t)

\* The next step of a thread that sends, inside the functions it has called.
SenderStep(t) ==
    SocketSendBufferToPeer(t) \/ SocketResolvePeerEndpointSrc(t) \/ SendAsync(t)

\* The next step of a thread that updates the endpoint.
UpdaterStep(t) == SocketSetPeerEndpoint(t) \/ SocketClearPeerEndpointSrc(t)

SpecLive ==
    /\ InitPeer
    /\ [][NextLive]_vars
    /\ \A t \in PeerSenders : WF_vars(SenderStep(t))
    /\ \A t \in PeerUpdaters : WF_vars(UpdaterStep(t))

\* Thread t is inside SocketResolvePeerEndpointSrc.
InResolver(t) ==
    pc[t] \in {"SocketResolvePeerEndpointSrc", "rs_retry", "rs_table", "rs_scan",
               "rs_best", "rs_lock", "rs_write", "rs_recheck"}

\* No thread but t has called anything: nothing has touched the endpoint
\* but the calls of t.
NoOtherCalls(t) ==
    \A u \in (PeerSenders \cup PeerUpdaters) \ {t} : pc[u] = "idle" /\ loc[u].calls = 0

\* The resolver of thread t goes back to its retry label.
TakesRetry(t) == pc[t] \in {"rs_write", "rs_recheck"} /\ pc'[t] = "rs_retry"

\* The resolver of thread t returns success from its slow path.
SlowPathSuccess(t) ==
    pc[t] = "rs_recheck" /\ Resolved(t)' /\ NT_SUCCESS(loc'[t].Status)

\* C28: a call of the resolver returns, the mutations of the endpoint by
\* SocketSetPeerEndpoint and SocketClearPeerEndpointSrc being finitely many; when nothing else touches the endpoint the resolver
\* does not go back to its retry label, and its successful slow path leaves
\* UpdateGeneration one above what it was (0, the endpoint never written).
C28_ResolverReturns ==
    /\ \A t \in PeerSenders : InResolver(t) ~> Resolved(t)
    /\ [][\A t \in PeerSenders :
             NoOtherCalls(t) =>
                /\ ~TakesRetry(t)
                /\ SlowPathSuccess(t) => peer'.Endpoint.UpdateGeneration = 1]_vars

\* C28's case: the first call of the resolver has returned success after
\* it wrote three times: each of the two mutations the other thread made
\* came after a write of the resolver and sent it back to its retry label.
C28_Witness ==
    \E t \in PeerSenders :
        /\ Resolved(t) /\ NT_SUCCESS(loc[t].Status)
        /\ loc[t].calls = 1
        /\ peer.Endpoint.UpdateGeneration = 3 + MaxUpdates
        /\ \A u \in PeerUpdaters : loc[u].calls = MaxUpdates /\ pc[u] = "idle"

====
